---- MODULE Spec2Model ----
(***************************************************************************)
(* Transaction scopes, statement execution and ORM loading as exercised by *)
(* the SQLAlchemy 2.0 tutorial scripts (0_intro.py, 1_working_with_data.py,*)
(* 3_working_with_related_objects.py, 4_using_session.py, data/db_config). *)
(* The scripts drive the library through `with` blocks; the behaviour of   *)
(* each call is the one the scripts' own narration describes.              *)
(***************************************************************************)
EXTENDS Integers, Sequences, FiniteSets, TLC

VARIABLES
    pc,          \* "out": no block open; "body": inside a with-block; "closing": begin-block left, connection not yet released
    style,       \* how the block was opened: "connect" (engine.connect / Session(engine)) or "begin" (engine.begin / sessionmaker.begin)
    handle,      \* "open" while the Connection holds its DBAPI handle, else "closed"
    txn,         \* "idle" or "active": the Connection's transaction state
    db,          \* committed contents of some_table: sequence of rows [x, y]
    work,        \* contents as seen inside the current transaction
    log,         \* what was sent on the DBAPI connection in this block: "BEGIN", "EXEC", "COMMIT", "ROLLBACK"
    calls,       \* number of API calls made in this block
    err,         \* outcome of the last call: "none" or the error it raised
    lastOp,      \* the last call
    prevOp,      \* the call before it
    exc,         \* TRUE when the block body was left by an exception
    propagated,  \* TRUE when that exception has left the with-statement
    cursor,      \* rows of the last Result not yet fetched
    rowcount,    \* affected-row count reported by the last execute
    lastStmt,    \* statement kind of the last execute
    params,      \* parameter sets the last execute was given, in order
    invoked,     \* parameter sets the last execute sent to the driver, in order
    fetched,     \* rows the last fetch call delivered, in order
    catalog,     \* names of the tables that exist in the database, as committed
    visible,     \* names of the tables that exist as seen inside the current transaction
    driverTxn,   \* TRUE when the DBAPI driver has begun a transaction (it does so before the first INSERT or UPDATE, not before a SELECT or a CREATE TABLE)
    given,       \* form of the parameter argument of the last execute: "set" (one parameter set), "list", or "none"
    users,       \* user_account rows on disk: the set of primary keys
    addresses,   \* address rows on disk: records [id, user_id]
    session,     \* "closed" or "open": whether a with Session(engine) block is entered
    heap,        \* the mapped objects the open Session has constructed: [cls, pk, state]
    identity_map,\* the open Session's identity map: records [key, oid]
    firstLoad,   \* for each identity, the object the open Session produced for it first (0: none)
    result,      \* objects the last statement delivered, in row order
    related,     \* objects the last statement loaded for a relationship
    lastQuery,   \* the last statement: [entity, shape, option, api]
    contents,    \* relationship contents the last statement attached: pairs [owner, member] of objects
    statements,  \* number of SELECT statements the last load sent
    tasks,       \* per concurrent task: its own Session and Connection (session, objs, pending,
                 \* imap, txn, tables as its transaction sees them, inflight = transactions begun
                 \* and not ended on its Connection)
    actor,       \* the task that took the last step, "none" before the first
    metadata,    \* Base.metadata: the registered tables in declaration order (tables) and
                 \* their foreign keys as <<referencing table, referenced table>> pairs (fkeys)
    collection,  \* u.addresses of each constructed User: the list of Address objects in it
    parent,      \* a.user of each constructed Address: a User, or "None"
    mutation,    \* the last change made to a relationship attribute: [op, user, address]
    lazy,        \* relationship collections of the Session's User objects: loaded (objects whose
                 \* addresses collection is populated), before (those of them populated before the
                 \* last query), selects (SELECTs that attribute reads issued since the last query),
                 \* read (the object whose addresses attribute was read last, 0 for none)
    delivered,   \* what iterating the last Result / ScalarResult yields, in order
    objs,        \* the objects the script constructs (u1, a1, a2): [cls, state, pk, val, user_id, expired, dirty]
    links,       \* pairs <<u, a>>: a is in u.addresses and a.user is u (back_populates keeps both sides)
    pending,     \* session.new: the pending objects in the order they entered the Session
    tables,      \* user_account and address as seen inside the Session's transaction
    stored,      \* user_account and address as committed
    emitted,     \* statements the last Session call sent: [sql, tab, pk]
    steps,       \* the steps the last Session call went through, in order
    snapshot,    \* for each object, the attribute value it held when a commit() last wrote it ("": never)
    arg          \* the object the last Session call was given (0: none)

connVars == <<pc, style, handle, txn, db, work, log, calls, err, lastOp, prevOp,
              exc, propagated, cursor, rowcount, lastStmt, params, invoked, fetched,
              given, catalog, visible, driverTxn>>

relVars == <<collection, parent, mutation>>

uowVars == <<objs, links, pending, tables, stored, emitted, steps, snapshot, arg, relVars, metadata,
            tasks, actor>>

ormVars == <<users, addresses, session, heap, identity_map, firstLoad, result,
             related, lastQuery, contents, statements, delivered, lazy, uowVars>>

vars == <<connVars, ormVars>>

(***************************************************************************)
(* Bounds of the model.                                                    *)
(***************************************************************************)
MaxRows  == 2
MaxCalls == 3
MaxBatch == 2

(***************************************************************************)
(* Statements and parameter sets of 0_intro.py.                            *)
(***************************************************************************)
InsertParams == { [x |-> 6, y |-> 8], [x |-> 9, y |-> 5] }
UpdateParams == { [x |-> 9, y |-> 11], [x |-> 13, y |-> 15] }
SelectParams == { [x |-> 0, y |-> 6] }
NoParams     == [x |-> 0, y |-> 0]

\* insert(...).returning(...): the Core insert of 1_working_with_data.py with a
\* RETURNING column list, here over the columns of some_table
Returning(kind) == kind = "insert_returning"

IsInsert(kind) == kind \in {"insert", "insert_returning"}

ParamsOf(kind) ==
    CASE IsInsert(kind)  -> InsertParams
      [] kind = "update" -> UpdateParams
      [] kind = "select" -> SelectParams
      [] OTHER           -> {NoParams}

RowLess(a, b) == a.x < b.x \/ (a.x = b.x /\ a.y < b.y)

RECURSIVE OrderByXY(_)
OrderByXY(rows) ==
    IF rows = <<>> THEN <<>>
    ELSE LET m == CHOOSE i \in DOMAIN rows :
                      \A j \in DOMAIN rows :
                          ~RowLess(rows[j], rows[i]) /\ (rows[j] = rows[i] => i <= j)
             rest == [k \in 1..(Len(rows) - 1) |-> IF k < m THEN rows[k] ELSE rows[k + 1]]
         IN  <<rows[m]>> \o OrderByXY(rest)

RECURSIVE Where(_, _)
Where(rows, rate) ==
    IF rows = <<>> THEN <<>>
    ELSE (IF Head(rows).y > rate THEN <<Head(rows)>> ELSE <<>>) \o Where(Tail(rows), rate)

\* One invocation of a statement with one parameter set on table contents t.
Invoke(t, kind, p) ==
    CASE kind = "insert" ->
            [tab |-> Append(t, p), rc |-> 1, rows |-> <<>>]
      [] kind = "insert_returning" ->
            [tab |-> Append(t, p), rc |-> 1, rows |-> <<p>>]
      [] kind = "update" ->
            [tab  |-> [i \in DOMAIN t |-> IF t[i].x = p.x THEN [x |-> t[i].x, y |-> p.y] ELSE t[i]],
             rc   |-> Cardinality({i \in DOMAIN t : t[i].x = p.x}),
             rows |-> <<>>]
      [] kind = "select" ->
            [tab |-> t, rc |-> -1, rows |-> OrderByXY(Where(t, p.y))]
      [] OTHER ->
            [tab |-> t, rc |-> -1, rows |-> <<>>]

\* Variant of RunBatch that walks the parameter sets from the last to the first.
RECURSIVE RunBatchReversed(_, _, _)
RunBatchReversed(t, kind, ps) ==
    IF ps = <<>> THEN [tab |-> t, rc |-> 0, sent |-> <<>>, rows |-> <<>>]
    ELSE LET n    == Len(ps)
             r    == Invoke(t, kind, ps[n])
             rest == RunBatchReversed(r.tab, kind, SubSeq(ps, 1, n - 1))
         IN  [tab |-> rest.tab, rc |-> r.rc + rest.rc, sent |-> <<ps[n]>> \o rest.sent,
              rows |-> IF Returning(kind) THEN r.rows \o rest.rows ELSE <<>>]

\* Variant of RunBatch that keeps only the rows of the last invocation, as a plain
\* DBAPI executemany leaves them.
RECURSIVE RunBatchLastRows(_, _, _)
RunBatchLastRows(t, kind, ps) ==
    IF ps = <<>> THEN [tab |-> t, rc |-> 0, sent |-> <<>>, rows |-> <<>>]
    ELSE LET r    == Invoke(t, kind, Head(ps))
             rest == RunBatchLastRows(r.tab, kind, Tail(ps))
         IN  [tab |-> rest.tab, rc |-> r.rc + rest.rc, sent |-> <<Head(ps)>> \o rest.sent,
              rows |-> IF Returning(kind)
                       THEN (IF Tail(ps) = <<>> THEN r.rows ELSE rest.rows)
                       ELSE <<>>]

\* executemany: the statement is invoked once per parameter set, in input order; no
\* rows come back, except for an insert with RETURNING: one row per parameter set.
RECURSIVE RunBatch(_, _, _)
RunBatch(t, kind, ps) ==
    IF ps = <<>> THEN [tab |-> t, rc |-> 0, sent |-> <<>>, rows |-> <<>>]
    ELSE LET r    == Invoke(t, kind, Head(ps))
             rest == RunBatch(r.tab, kind, Tail(ps))
         IN  [tab |-> rest.tab, rc |-> r.rc + rest.rc, sent |-> <<Head(ps)>> \o rest.sent,
              rows |-> IF Returning(kind) THEN r.rows \o rest.rows ELSE <<>>]

Batches(kind) ==
    UNION { [1..n -> ParamsOf(kind)] : n \in 2..MaxBatch }

\* The parameter lists a script passes: one parameter set or several; a SELECT is
\* given one.
Lists(kind) ==
    {<<p>> : p \in ParamsOf(kind)} \cup (IF kind = "select" THEN {} ELSE Batches(kind))

\* class User(Base), class Address(Base) with user_id = ForeignKey("user_account.id")
Registered ==
    [tables |-> <<"user_account", "address">>, fkeys |-> {<<"address", "user_account">>}]

\* No block open, nothing executed yet.
ConnIdle ==
    /\ pc = "out"
    /\ style = "connect"
    /\ handle = "closed"
    /\ txn = "idle"
    /\ db = <<>>
    /\ work = <<>>
    /\ log = <<>>
    /\ calls = 0
    /\ err = "none"
    /\ lastOp = "init"
    /\ prevOp = "init"
    /\ exc = FALSE
    /\ propagated = FALSE
    /\ cursor = <<>>
    /\ rowcount = 0
    /\ lastStmt = "none"
    /\ params = <<>>
    /\ invoked = <<>>
    /\ fetched = <<>>
    /\ given = "none"
    /\ driverTxn = FALSE

\* The tables the statements of the scripts use exist (an earlier run created them).
ConnInit ==
    /\ ConnIdle
    /\ metadata = Registered
    /\ catalog = {"some_table", "user_account", "address"}
    /\ visible = catalog

\* the schema as a call leaves it that neither creates a table nor ends a transaction
SchemaKept == UNCHANGED <<catalog, visible, driverTxn>>

\* the schema after the driver's transaction ended: a COMMIT makes the tables created
\* inside it durable, a ROLLBACK (or releasing the connection) drops them again
SchemaEnded(how) ==
    /\ driverTxn' = FALSE
    /\ catalog' = IF how = "COMMIT" THEN visible ELSE catalog
    /\ visible' = IF how = "COMMIT" THEN visible ELSE catalog

\* No object constructed yet, both tables empty.
UowIdle ==
    /\ objs = <<>>
    /\ links = {}
    /\ pending = <<>>
    /\ tables = [user_account |-> {}, address |-> {}]
    /\ stored = [user_account |-> {}, address |-> {}]
    /\ emitted = <<>>
    /\ steps = <<>>
    /\ snapshot = <<>>
    /\ arg = 0

NothingLoaded == [loaded |-> {}, before |-> {}, selects |-> 0, read |-> 0]

\* The objects of the relationship walk-through, freshly constructed: every
\* collection empty, no Address with a User.
RelUsers == {"u1", "u2"}

RelAddresses == {"a1", "a2", "a3"}

Tasks == {"t1", "t2"}

\* No task has started.
NoTasks ==
    /\ tasks = [t \in Tasks |-> [session |-> "closed"]]
    /\ actor = "none"

Unrelated ==
    /\ collection = [u \in RelUsers |-> <<>>]
    /\ parent = [a \in RelAddresses |-> "None"]
    /\ mutation = [op |-> "none", user |-> "None", address |-> "None"]

OrmIdle ==
    /\ Unrelated
    /\ NoTasks
    /\ users = {}
    /\ addresses = {}
    /\ session = "closed"
    /\ heap = <<>>
    /\ identity_map = {}
    /\ firstLoad = [k \in {} |-> 0]
    /\ result = <<>>
    /\ related = <<>>
    /\ lastQuery = [entity |-> "none", shape |-> "none", option |-> "none", api |-> "none"]
    /\ contents = {}
    /\ statements = 0
    /\ delivered = <<>>
    /\ lazy = NothingLoaded

Init == ConnInit /\ OrmIdle /\ UowIdle

\* with engine.connect() as conn / with Session(engine) as session / with engine.begin() as conn
Open(st) ==
    /\ pc = "out"
    /\ pc' = "body"
    /\ style' = st
    /\ handle' = "open"
    /\ txn' = IF st = "begin" THEN "active" ELSE "idle"
    /\ log' = IF st = "begin" THEN <<"BEGIN">> ELSE <<>>
    /\ work' = db
    /\ calls' = 0
    /\ err' = "none"
    /\ lastOp' = "open"
    /\ prevOp' = "init"
    /\ exc' = FALSE
    /\ propagated' = FALSE
    /\ cursor' = <<>>
    /\ rowcount' = 0
    /\ lastStmt' = "none"
    /\ params' = <<>>
    /\ invoked' = <<>>
    /\ fetched' = <<>>
    /\ given' = "none"
    /\ SchemaEnded("ROLLBACK")
    /\ UNCHANGED db
    /\ UNCHANGED ormVars

InBody == pc = "body" /\ handle = "open" /\ calls < MaxCalls

Called(op) ==
    /\ calls' = calls + 1
    /\ lastOp' = op
    /\ prevOp' = lastOp

\* Variant of BeginOutcome that silently starts a fresh transaction over an active one.
BeginRestarting(t, l, d, w) ==
    [err |-> "none", txn |-> "active", log |-> Append(l, "BEGIN"), work |-> d]

\* begin() on transaction state t with log l, committed contents d, working contents w
BeginOutcome(t, l, d, w) ==
    IF t = "active"
    THEN [err |-> "StateError", txn |-> t, log |-> l, work |-> w]
    ELSE [err |-> "none", txn |-> "active", log |-> Append(l, "BEGIN"), work |-> w]

\* Variant of Autobegin that leaves the transaction state as it finds it.
NoAutobegin(t, l) ==
    [txn |-> t, log |-> l]

\* the implicit BEGIN of a statement issued while no transaction is active
Autobegin(t, l) ==
    IF t = "idle"
    THEN [txn |-> "active", log |-> Append(l, "BEGIN")]
    ELSE [txn |-> t, log |-> l]

\* Variant of EndTransaction that rejects the call when no transaction is active.
EndTransactionStrict(how, t, l, d, w) ==
    IF t = "active"
    THEN [err |-> "none", txn |-> "idle", log |-> Append(l, how),
          db |-> IF how = "COMMIT" THEN w ELSE d,
          work |-> IF how = "COMMIT" THEN w ELSE d]
    ELSE [err |-> "StateError", txn |-> t, log |-> l, db |-> d, work |-> w]

\* commit() / rollback() (how: "COMMIT" or "ROLLBACK")
EndTransaction(how, t, l, d, w) ==
    IF t = "active"
    THEN [err |-> "none", txn |-> "idle", log |-> Append(l, how),
          db |-> IF how = "COMMIT" THEN w ELSE d,
          work |-> IF how = "COMMIT" THEN w ELSE d]
    ELSE [err |-> "none", txn |-> t, log |-> l, db |-> d, work |-> w]

\* Variant of Released that rejects close() on a Connection already closed.
ReleasedOnce(h, t, l, d, w, c) ==
    IF h = "closed"
    THEN [err |-> "ResourceClosedError", handle |-> h, txn |-> t, log |-> l, db |-> d,
          work |-> w, cursor |-> c]
    ELSE [err |-> "none", handle |-> "closed", txn |-> "idle",
          log |-> IF t = "active" THEN Append(l, "ROLLBACK") ELSE l,
          db |-> d, work |-> d, cursor |-> <<>>]

\* Variant of Released that commits the transaction open at close time.
ReleasedCommitting(h, t, l, d, w, c) ==
    IF h = "closed"
    THEN [err |-> "none", handle |-> h, txn |-> t, log |-> l, db |-> d, work |-> w, cursor |-> c]
    ELSE [err |-> "none", handle |-> "closed", txn |-> "idle",
          log |-> IF t = "active" THEN Append(l, "COMMIT") ELSE l,
          db |-> w, work |-> w, cursor |-> <<>>]

\* close(): roll back what is open, release the handle
Released(h, t, l, d, w, c) ==
    IF h = "closed"
    THEN [err |-> "none", handle |-> h, txn |-> t, log |-> l, db |-> d, work |-> w, cursor |-> c]
    ELSE [err |-> "none", handle |-> "closed", txn |-> "idle",
          log |-> IF t = "active" THEN Append(l, "ROLLBACK") ELSE l,
          db |-> d, work |-> d, cursor |-> <<>>]

\* session.begin() / conn.begin()
Begin ==
    /\ InBody
    /\ style = "connect"
    /\ Called("begin")
    /\ SchemaKept
    /\ UNCHANGED ormVars
    /\ LET b == BeginOutcome(txn, log, db, work)
       IN  /\ err' = b.err
           /\ txn' = b.txn
           /\ log' = b.log
           /\ work' = b.work
    /\ UNCHANGED <<pc, style, handle, db, exc, propagated, cursor, rowcount,
                   lastStmt, params, invoked, fetched, given>>

\* A single invocation of a statement with the parameter set p, which the call was
\* given by itself ("set") or as the only element of a list ("list").
ExecuteForm(kind, p, form) ==
    /\ InBody
    /\ given' = form
    /\ IsInsert(kind) => Len(work) < MaxRows
    /\ Called("execute")
    /\ UNCHANGED ormVars
    /\ lastStmt' = kind
    /\ params' = <<p>>
    /\ invoked' = <<p>>
    /\ LET a == Autobegin(txn, log)
       IN  /\ txn' = a.txn
           /\ log' = Append(a.log, "EXEC")
    /\ CASE kind = "malformed" ->
                /\ err' = "SyntaxError"
                /\ rowcount' = -1
                /\ cursor' = <<>>
                /\ UNCHANGED work
                /\ SchemaKept
           [] kind = "create" ->
                \* CREATE TABLE some_table: the driver begins no transaction for it, so
                \* outside a transaction of the driver it takes effect at once
                /\ err' = IF "some_table" \in visible THEN "OperationalError" ELSE "none"
                /\ rowcount' = -1
                /\ cursor' = <<>>
                /\ UNCHANGED work
                /\ visible' = visible \cup {"some_table"}
                /\ catalog' = IF driverTxn THEN catalog ELSE catalog \cup {"some_table"}
                /\ UNCHANGED driverTxn
           [] kind \notin {"malformed", "create"} /\ "some_table" \notin visible ->
                \* no such table
                /\ err' = "OperationalError"
                /\ rowcount' = -1
                /\ cursor' = <<>>
                /\ UNCHANGED work
                /\ SchemaKept
           [] OTHER ->
                LET r == Invoke(work, kind, p)
                IN  /\ err' = "none"
                    /\ rowcount' = r.rc
                    /\ cursor' = r.rows
                    /\ work' = r.tab
                    /\ driverTxn' = (driverTxn \/ kind # "select")
                    /\ UNCHANGED <<catalog, visible>>
    /\ fetched' = <<>>
    /\ UNCHANGED <<pc, style, handle, db, exc, propagated>>

\* conn.execute(stmt, p) / session.execute(stmt, p) with one parameter set
Execute(kind, p) == ExecuteForm(kind, p, "set")

\* executemany: conn.execute(stmt, [p1, p2, ...]) / session.execute(stmt, [p1, p2, ...])
\* with more than one parameter set
ExecuteMany(kind, ps) ==
    /\ InBody
    /\ "some_table" \in visible
    /\ given' = "list"
    /\ driverTxn' = TRUE
    /\ UNCHANGED <<catalog, visible>>
    /\ IsInsert(kind) => Len(work) + Len(ps) <= MaxRows
    /\ Called("executemany")
    /\ UNCHANGED ormVars
    /\ lastStmt' = kind
    /\ params' = ps
    /\ LET a == Autobegin(txn, log)
           b == RunBatch(work, kind, ps)
       IN  /\ txn' = a.txn
           /\ log' = a.log \o [i \in 1..Len(b.sent) |-> "EXEC"]
           /\ invoked' = b.sent
           /\ rowcount' = b.rc
           /\ work' = b.tab
           /\ cursor' = b.rows
    /\ err' = "none"
    /\ fetched' = <<>>
    /\ UNCHANGED <<pc, style, handle, db, exc, propagated>>

\* Variant of IsExecuteMany that takes every list for a batch.
IsExecuteManyAnyList(ps) == TRUE

\* A list of parameter sets is run as executemany when it holds more than one.
IsExecuteMany(ps) == Len(ps) > 1

\* conn.execute(stmt, [...]) / session.execute(statement=stmt, params=[...]): the
\* parameter argument is a list of parameter sets
ExecuteList(kind, ps) ==
    IF IsExecuteMany(ps) THEN ExecuteMany(kind, ps) ELSE ExecuteForm(kind, ps[1], "list")

\* Variant of Deliver that hands rows out without consuming them.
DeliverWithoutConsuming(c, all) ==
    IF all THEN [out |-> c, rest |-> c]
    ELSE IF c = <<>> THEN [out |-> <<>>, rest |-> <<>>]
         ELSE [out |-> <<Head(c)>>, rest |-> c]

\* What a fetch hands out of the rows c not yet delivered, and what is left: all of
\* them for all(), the next one for an iteration step; nothing once c is exhausted.
Deliver(c, all) ==
    IF all THEN [out |-> c, rest |-> <<>>]
    ELSE IF c = <<>> THEN [out |-> <<>>, rest |-> <<>>]
         ELSE [out |-> <<Head(c)>>, rest |-> Tail(c)]

\* The last execute produced a Result that returns rows.
ReturnsRows == lastStmt \in {"select", "insert_returning"}

\* Variant of Fetch that ends the transaction when the last row is delivered.
FetchEndingTransaction ==
    /\ InBody
    /\ ReturnsRows
    /\ Called("fetch")
    /\ SchemaKept
    /\ UNCHANGED ormVars
    /\ LET d == Deliver(cursor, FALSE)
       IN  /\ fetched' = d.out
           /\ cursor' = d.rest
    /\ err' = "none"
    /\ txn' = IF Len(cursor) = 1 THEN "idle" ELSE txn
    /\ UNCHANGED <<pc, style, handle, db, work, log, exc, propagated, rowcount,
                   lastStmt, params, invoked, given>>

\* iterating the Result: the next row is delivered, or none when it is exhausted
Fetch ==
    /\ InBody
    /\ ReturnsRows
    /\ Called("fetch")
    /\ SchemaKept
    /\ UNCHANGED ormVars
    /\ LET d == Deliver(cursor, FALSE)
       IN  /\ fetched' = d.out
           /\ cursor' = d.rest
    /\ err' = "none"
    /\ UNCHANGED <<pc, style, handle, txn, db, work, log, exc, propagated, rowcount,
                   lastStmt, params, invoked, given>>

\* result.all(): every row not yet delivered, in order
FetchAll ==
    /\ InBody
    /\ ReturnsRows
    /\ Called("all")
    /\ SchemaKept
    /\ UNCHANGED ormVars
    /\ LET d == Deliver(cursor, TRUE)
       IN  /\ fetched' = d.out
           /\ cursor' = d.rest
    /\ err' = "none"
    /\ UNCHANGED <<pc, style, handle, txn, db, work, log, exc, propagated, rowcount,
                   lastStmt, params, invoked, given>>

\* conn.commit() / session.commit()
Commit ==
    /\ InBody
    /\ style = "connect"
    /\ Called("commit")
    /\ SchemaEnded("COMMIT")
    /\ UNCHANGED ormVars
    /\ LET e == EndTransaction("COMMIT", txn, log, db, work)
       IN  /\ err' = e.err
           /\ txn' = e.txn
           /\ log' = e.log
           /\ db' = e.db
           /\ work' = e.work
    /\ UNCHANGED <<pc, style, handle, exc, propagated, cursor, rowcount,
                   lastStmt, params, invoked, fetched, given>>

\* conn.rollback() / session.rollback()
Rollback ==
    /\ InBody
    /\ style = "connect"
    /\ Called("rollback")
    /\ SchemaEnded("ROLLBACK")
    /\ UNCHANGED ormVars
    /\ LET e == EndTransaction("ROLLBACK", txn, log, db, work)
       IN  /\ err' = e.err
           /\ txn' = e.txn
           /\ log' = e.log
           /\ db' = e.db
           /\ work' = e.work
    /\ UNCHANGED <<pc, style, handle, exc, propagated, cursor, rowcount,
                   lastStmt, params, invoked, fetched, given>>

Release ==
    /\ LET r == Released(handle, txn, log, db, work, cursor)
       IN  /\ err' = r.err
           /\ handle' = r.handle
           /\ txn' = r.txn
           /\ log' = r.log
           /\ db' = r.db
           /\ work' = r.work
           /\ cursor' = r.cursor
    /\ SchemaEnded("ROLLBACK")
    /\ UNCHANGED <<rowcount, lastStmt, params, invoked, fetched, given>>

\* conn.close() / session.close() called in the block body
Close ==
    /\ pc = "body"
    /\ style = "connect"
    /\ calls < MaxCalls
    /\ Called("close")
    /\ UNCHANGED ormVars
    /\ Release
    /\ UNCHANGED <<pc, style, exc, propagated>>

\* Variant of TxnExit that commits also when the body raised.
TxnExitCommitting(raised) ==
    /\ pc = "body"
    /\ style = "begin"
    /\ pc' = "closing"
    /\ exc' = raised
    /\ Called("commit")
    /\ SchemaEnded("COMMIT")
    /\ UNCHANGED ormVars
    /\ LET e == EndTransaction("COMMIT", txn, log, db, work)
       IN  /\ err' = e.err
           /\ txn' = e.txn
           /\ log' = e.log
           /\ db' = e.db
           /\ work' = e.work
    /\ UNCHANGED <<style, handle, propagated, cursor, rowcount, lastStmt, params, invoked,
                   fetched, given>>

\* leaving the transaction of a begin-block: COMMIT, or ROLLBACK when the body raised
TxnExit(raised) ==
    /\ pc = "body"
    /\ style = "begin"
    /\ pc' = "closing"
    /\ exc' = raised
    /\ Called(IF raised THEN "rollback" ELSE "commit")
    /\ SchemaEnded(IF raised THEN "ROLLBACK" ELSE "COMMIT")
    /\ UNCHANGED ormVars
    /\ LET e == EndTransaction(IF raised THEN "ROLLBACK" ELSE "COMMIT", txn, log, db, work)
       IN  /\ err' = e.err
           /\ txn' = e.txn
           /\ log' = e.log
           /\ db' = e.db
           /\ work' = e.work
    /\ UNCHANGED <<style, handle, propagated, cursor, rowcount, lastStmt, params, invoked,
                   fetched, given>>

\* Variant of ScopeExit that swallows the exception once the Connection is closed.
ScopeExitSwallowing(raised) ==
    /\ \/ pc = "body" /\ style = "connect" /\ exc' = raised
       \/ pc = "closing" /\ exc' = exc /\ raised = exc
    /\ pc' = "out"
    /\ Called("close")
    /\ UNCHANGED ormVars
    /\ Release
    /\ propagated' = FALSE
    /\ UNCHANGED style

\* leaving the with-block: the Connection is closed, then a raised exception goes on
ScopeExit(raised) ==
    /\ \/ pc = "body" /\ style = "connect" /\ exc' = raised
       \/ pc = "closing" /\ exc' = exc /\ raised = exc
    /\ pc' = "out"
    /\ Called("close")
    /\ UNCHANGED ormVars
    /\ Release
    /\ propagated' = exc'
    /\ UNCHANGED style

DML == {"insert", "update"}

\* Transaction lifecycle of a Connection / Session block.
Next ==
    \/ \E st \in {"connect", "begin"} : Open(st)
    \/ Begin
    \/ \E kind \in {"insert", "select", "malformed"} :
           \E p \in ParamsOf(kind) : Execute(kind, p)
    \/ Fetch
    \/ FetchAll
    \/ Commit
    \/ Rollback
    \/ Close
    \/ \E raised \in BOOLEAN : TxnExit(raised)
    \/ \E raised \in BOOLEAN : ScopeExit(raised)

Spec == Init /\ [][Next]_vars

\* Single and batched DML in commit-as-you-go blocks.
NextBatch ==
    \/ Open("connect")
    \/ \E kind \in DML : \E p \in ParamsOf(kind) : Execute(kind, p)
    \/ \E kind \in DML \cup {"insert_returning", "select"} :
           \E ps \in Lists(kind) : ExecuteList(kind, ps)
    \/ Commit
    \/ ScopeExit(FALSE)

SpecBatch == Init /\ [][NextBatch]_vars

(***************************************************************************)
(* ORM loading: User and Address of data/db_config.py, loaded through a    *)
(* Session into mapped objects.                                            *)
(***************************************************************************)
\* The rows the scripts leave in data/db.sqlite3.
UserTable == {1, 2}

AddressTable == {[id |-> 1, user_id |-> 1], [id |-> 2, user_id |-> 2]}

NameOf(pk) ==
    CASE pk = 1 -> "Oliver"
      [] pk = 2 -> "Ana"
      [] OTHER  -> "pkrabs"

Keys == [cls : {"User"}, pk : UserTable]
            \cup [cls : {"Address"}, pk : {a.id : a \in AddressTable}]

KeyOf(o) == [cls |-> o.cls, pk |-> o.pk]

\* ORDER BY id over a set of primary keys
RECURSIVE OrderById(_)
OrderById(S) ==
    IF S = {} THEN <<>>
    ELSE LET m == CHOOSE a \in S : \A b \in S : a <= b
         IN  <<m>> \o OrderById(S \ {m})

UsersNamed(n) == {u \in users : NameOf(u) = n}

\* Primary keys of the rows of a select(User) statement, in result order.
UserRows(shape) ==
    CASE shape = "all"       -> OrderById(users)
      [] shape = "union_all" -> OrderById(UsersNamed("Ana")) \o OrderById(UsersNamed("Oliver"))
      [] OTHER               -> OrderById(UsersNamed(shape))

\* Rows [id, user_id] of select(Address).join(Address.user) ... .order_by(Address.id)
AddressRows(shape) ==
    LET hit == {a \in addresses : a.user_id \in users
                                  /\ (shape = "all" \/ NameOf(a.user_id) = shape)}
        ids == OrderById({a.id : a \in hit})
    IN  [i \in DOMAIN ids |-> CHOOSE a \in hit : a.id = ids[i]]

\* Variant of Instance that builds a new object for every row.
InstanceAlwaysNew(h, im, key) ==
    LET o == Len(h) + 1
    IN  [heap |-> Append(h, [cls |-> key.cls, pk |-> key.pk, state |-> "persistent"]),
         imap |-> im \cup {[key |-> key, oid |-> o]},
         oid  |-> o]

\* The object for one row identity: the one the identity map holds, else a new one.
Instance(h, im, key) ==
    IF \E e \in im : e.key = key
    THEN [heap |-> h, imap |-> im, oid |-> (CHOOSE e \in im : e.key = key).oid]
    ELSE LET o == Len(h) + 1
         IN  [heap |-> Append(h, [cls |-> key.cls, pk |-> key.pk, state |-> "persistent"]),
              imap |-> im \cup {[key |-> key, oid |-> o]},
              oid  |-> o]

\* The objects for a sequence of row identities, in order.
RECURSIVE Materialize(_, _, _)
Materialize(h, im, keys) ==
    IF keys = <<>> THEN [heap |-> h, imap |-> im, out |-> <<>>]
    ELSE LET one  == Instance(h, im, Head(keys))
             rest == Materialize(one.heap, one.imap, Tail(keys))
         IN  [heap |-> rest.heap, imap |-> rest.imap, out |-> <<one.oid>> \o rest.out]

\* History: remember, per identity, the first object a Session produced for it.
RECURSIVE NoteFirst(_, _, _)
NoteFirst(fl, oids, h) ==
    IF oids = <<>> THEN fl
    ELSE LET k == KeyOf(h[Head(oids)])
         IN  NoteFirst(IF fl[k] = 0 THEN [fl EXCEPT ![k] = Head(oids)] ELSE fl,
                       Tail(oids), h)

FullnameOf(pk) ==
    CASE pk = 1 -> "Sandy Cheeks"
      [] pk = 2 -> "Patrick Star"
      [] OTHER  -> "Pearl Krabs"

\* The rows of a select of one mapped class: each row has one element, the object.
EntityRows(out) == [i \in DOMAIN out |-> <<out[i]>>]

\* The rows of select(User.name, User.fullname)
ColumnRows(shape) ==
    LET rows == UserRows(shape)
    IN  [i \in DOMAIN rows |-> <<NameOf(rows[i]), FullnameOf(rows[i])>>]

\* Variant of Scalars that keeps the last element of each row.
ScalarsLastColumn(rows) == [i \in DOMAIN rows |-> rows[i][Len(rows[i])]]

\* Result.scalars(): the first element of each row
Scalars(rows) == [i \in DOMAIN rows |-> rows[i][1]]

\* What the caller iterates over: session.execute(stmt) gives the rows,
\* session.execute(stmt).scalars() narrows them, and session.scalars(stmt) is
\* execute followed by scalars().
Yield(api, rows) ==
    LET executed == rows
    IN  CASE api = "execute"         -> executed
          [] api = "execute_scalars" -> Scalars(executed)
          [] OTHER                   -> Scalars(executed)

\* with Session(engine) as session:
OpenSession ==
    /\ session = "closed"
    /\ session' = "open"
    /\ heap' = <<>>
    /\ identity_map' = {}
    /\ firstLoad' = [k \in Keys |-> 0]
    /\ result' = <<>>
    /\ related' = <<>>
    /\ lastQuery' = [entity |-> "none", shape |-> "none", option |-> "none", api |-> "none"]
    /\ contents' = {}
    /\ statements' = 0
    /\ delivered' = <<>>
    /\ lazy' = NothingLoaded
    /\ UNCHANGED <<users, addresses, uowVars>>
    /\ UNCHANGED connVars

\* The addresses collections after a select(User): selectinload(User.addresses)
\* populates the collection of every User of the result, no option populates none.
Populate(option) ==
    lazy' = [loaded  |-> lazy.loaded \cup (IF option = "selectinload"
                                           THEN {result'[i] : i \in DOMAIN result'}
                                           ELSE {}),
             before  |-> lazy.loaded,
             selects |-> 0,
             read    |-> 0]

\* session.execute(select(User)...) / session.scalars(select(User)...),
\* optionally with .options(selectinload(User.addresses)).  Which collections the
\* statement populated is followed by Populate, in the blocks that read them.
LoadUsers(api, shape, option) ==
    /\ session = "open"
    /\ LET rows    == UserRows(shape)
           m       == Materialize(heap, identity_map,
                                  [i \in DOMAIN rows |-> [cls |-> "User", pk |-> rows[i]]])
           owners  == {rows[i] : i \in DOMAIN rows}
           kids    == OrderById({a.id : a \in {b \in addresses : b.user_id \in owners}})
           relKeys == IF option = "selectinload"
                      THEN [i \in DOMAIN kids |-> [cls |-> "Address", pk |-> kids[i]]]
                      ELSE <<>>
           r       == Materialize(m.heap, m.imap, relKeys)
           owner(k) == CHOOSE a \in addresses : a.id = k
       IN  /\ heap' = r.heap
           /\ identity_map' = r.imap
           /\ result' = m.out
           /\ related' = r.out
           /\ firstLoad' = NoteFirst(NoteFirst(firstLoad, m.out, r.heap), r.out, r.heap)
           /\ contents' = {[owner |-> m.out[p[1]], member |-> r.out[p[2]]] :
                              p \in {q \in (DOMAIN rows) \X (DOMAIN relKeys) :
                                        owner(kids[q[2]]).user_id = rows[q[1]]}}
           /\ statements' = IF option = "selectinload" /\ rows # <<>> THEN 2 ELSE 1
           /\ delivered' = Yield(api, EntityRows(m.out))
    /\ lastQuery' = [entity |-> "User", shape |-> shape, option |-> option, api |-> api]
    /\ UNCHANGED <<users, addresses, session, uowVars>>
    /\ UNCHANGED connVars

\* Variant of ReadAddresses that takes the collection from the objects the Session
\* already holds, without a SELECT.
ReadAddressesFromIdentityMap(o) ==
    /\ session = "open"
    /\ o \in DOMAIN heap /\ heap[o].cls = "User" /\ heap[o].state = "persistent"
    /\ \E i \in DOMAIN result : result[i] = o
    /\ lastQuery.entity = "User"
    /\ contents' = contents \cup
                      {[owner |-> o, member |-> e.oid] :
                          e \in {f \in identity_map :
                                    /\ f.key.cls = "Address"
                                    /\ \E a \in addresses : a.id = f.key.pk /\ a.user_id = heap[o].pk}}
    /\ lazy' = [lazy EXCEPT !.loaded = @ \cup {o}, !.read = o]
    /\ UNCHANGED <<users, addresses, session, heap, identity_map, firstLoad, result, related,
                   lastQuery, statements, delivered, uowVars>>
    /\ UNCHANGED connVars

\* row.User.addresses: reading the collection of a User the last query returned.
\* A collection that is not populated yet is loaded by a SELECT of the User's
\* address rows (lazy loading, the default); a populated one is returned as it is.
ReadAddresses(o) ==
    /\ session = "open"
    /\ o \in DOMAIN heap /\ heap[o].cls = "User" /\ heap[o].state = "persistent"
    /\ \E i \in DOMAIN result : result[i] = o
    /\ lastQuery.entity = "User"
    /\ IF o \in lazy.loaded
       THEN /\ lazy' = [lazy EXCEPT !.read = o]
            /\ UNCHANGED <<heap, identity_map, firstLoad, contents>>
       ELSE LET kids == OrderById({a.id : a \in {b \in addresses : b.user_id = heap[o].pk}})
                m    == Materialize(heap, identity_map,
                                    [i \in DOMAIN kids |-> [cls |-> "Address", pk |-> kids[i]]])
            IN  /\ heap' = m.heap
                /\ identity_map' = m.imap
                /\ firstLoad' = NoteFirst(firstLoad, m.out, m.heap)
                /\ contents' = contents \cup {[owner |-> o, member |-> m.out[i]] : i \in DOMAIN m.out}
                /\ lazy' = [loaded  |-> lazy.loaded \cup {o},
                            before  |-> lazy.before,
                            selects |-> lazy.selects + 1,
                            read    |-> o]
    /\ UNCHANGED <<users, addresses, session, result, related, lastQuery, statements,
                   delivered, uowVars>>
    /\ UNCHANGED connVars

\* session.execute(select(User.name, User.fullname)) [.scalars()] /
\* session.scalars(select(User.name, User.fullname)): no object is built
LoadColumns(api, shape) ==
    /\ session = "open"
    /\ result' = <<>>
    /\ related' = <<>>
    /\ contents' = {}
    /\ statements' = 1
    /\ delivered' = Yield(api, ColumnRows(shape))
    /\ lazy' = [lazy EXCEPT !.before = lazy.loaded, !.selects = 0, !.read = 0]
    /\ lastQuery' = [entity |-> "columns", shape |-> shape, option |-> "none", api |-> api]
    /\ UNCHANGED <<users, addresses, session, heap, identity_map, firstLoad, uowVars>>
    /\ UNCHANGED connVars

\* The Address objects of the rows of a statement, in row order.
AddressObjects(h, im, rows) ==
    Materialize(h, im, [i \in DOMAIN rows |-> [cls |-> "Address", pk |-> rows[i].id]])

\* No loader option: the statement loads the Address objects and nothing else.
PlainLoad(h, im, rows) ==
    LET m == AddressObjects(h, im, rows)
    IN  [heap |-> m.heap, imap |-> m.imap, out |-> m.out, rel |-> <<>>,
         contents |-> {}, statements |-> 1]

\* contains_eager(Address.user): the one statement is the join; each of its rows
\* carries the columns of the Address and of its User, and the User built from a row
\* is attached to the Address built from the same row.
JoinLoad(h, im, rows) ==
    LET m == AddressObjects(h, im, rows)
        r == Materialize(m.heap, m.imap,
                         [i \in DOMAIN rows |-> [cls |-> "User", pk |-> rows[i].user_id]])
    IN  [heap |-> r.heap, imap |-> r.imap, out |-> m.out, rel |-> r.out,
         contents |-> {[owner |-> m.out[i], member |-> r.out[i]] : i \in DOMAIN rows},
         statements |-> 1]

\* Variant of SelectInLoad that attaches the first User of the second statement to
\* every Address.
SelectInLoadFirstUser(h, im, rows) ==
    LET m     == AddressObjects(h, im, rows)
        found == OrderById({u \in users : \E i \in DOMAIN rows : rows[i].user_id = u})
        r     == Materialize(m.heap, m.imap,
                             [j \in DOMAIN found |-> [cls |-> "User", pk |-> found[j]]])
    IN  [heap |-> r.heap, imap |-> r.imap, out |-> m.out, rel |-> r.out,
         contents |-> {[owner |-> m.out[i], member |-> r.out[1]] : i \in DOMAIN rows},
         statements |-> IF rows = <<>> THEN 1 ELSE 2]

\* selectinload(Address.user): the statement loads the Address objects; when it
\* returned rows, a second statement SELECT ... FROM user_account WHERE id IN (...)
\* loads the Users their user_id values name, and each Address gets the User whose
\* primary key is its user_id.
SelectInLoad(h, im, rows) ==
    LET m     == AddressObjects(h, im, rows)
        found == OrderById({u \in users : \E i \in DOMAIN rows : rows[i].user_id = u})
        r     == Materialize(m.heap, m.imap,
                             [j \in DOMAIN found |-> [cls |-> "User", pk |-> found[j]]])
    IN  [heap |-> r.heap, imap |-> r.imap, out |-> m.out, rel |-> r.out,
         contents |-> {[owner |-> m.out[p[1]], member |-> r.out[p[2]]] :
                          p \in {q \in (DOMAIN rows) \X (DOMAIN found) :
                                    found[q[2]] = rows[q[1]].user_id}},
         statements |-> IF rows = <<>> THEN 1 ELSE 2]

\* session.execute(select(Address).join(Address.user).where(User.name == ...)
\*     [.options(contains_eager(Address.user) | selectinload(Address.user))]
\*     .order_by(Address.id))
LoadAddresses(api, shape, option) ==
    /\ session = "open"
    /\ LET rows == AddressRows(shape)
           r    == CASE option = "contains_eager" -> JoinLoad(heap, identity_map, rows)
                     [] option = "selectinload"   -> SelectInLoad(heap, identity_map, rows)
                     [] OTHER                     -> PlainLoad(heap, identity_map, rows)
       IN  /\ heap' = r.heap
           /\ identity_map' = r.imap
           /\ result' = r.out
           /\ related' = r.rel
           /\ firstLoad' = NoteFirst(NoteFirst(firstLoad, r.out, r.heap), r.rel, r.heap)
           /\ contents' = r.contents
           /\ statements' = r.statements
           /\ delivered' = Yield(api, EntityRows(r.out))
           /\ lazy' = [lazy EXCEPT !.before = lazy.loaded, !.selects = 0, !.read = 0]
    /\ lastQuery' = [entity |-> "Address", shape |-> shape, option |-> option, api |-> api]
    /\ UNCHANGED <<users, addresses, session, uowVars>>
    /\ UNCHANGED connVars

\* leaving the with Session(engine) block: session.close(); the objects it loaded
\* are detached (they are dropped from the heap when the next Session opens)
CloseSession ==
    /\ session = "open"
    /\ session' = "closed"
    /\ heap' = [i \in DOMAIN heap |-> [heap[i] EXCEPT !.state = "detached"]]
    /\ identity_map' = {}
    /\ result' = <<>>
    /\ related' = <<>>
    /\ contents' = {}
    /\ UNCHANGED <<users, addresses, firstLoad, lastQuery, statements, delivered, uowVars>>
    /\ lazy' = NothingLoaded
    /\ UNCHANGED connVars

\* The database file as a run finds it: any users, any addresses owned by them.
Tables ==
    { t \in [users : SUBSET UserTable, addresses : SUBSET AddressTable] :
        \A a \in t.addresses : a.user_id \in t.users }

InitOrm ==
    /\ ConnInit
    /\ Unrelated
    /\ NoTasks
    /\ \E t \in Tables : users = t.users /\ addresses = t.addresses
    /\ session = "closed"
    /\ heap = <<>>
    /\ identity_map = {}
    /\ firstLoad = [k \in Keys |-> 0]
    /\ result = <<>>
    /\ related = <<>>
    /\ lastQuery = [entity |-> "none", shape |-> "none", option |-> "none", api |-> "none"]
    /\ contents = {}
    /\ statements = 0
    /\ delivered = <<>>
    /\ lazy = NothingLoaded
    /\ UowIdle

Shapes == {"all", "union_all"} \cup {NameOf(u) : u \in UserTable}

NextOrm ==
    \/ OpenSession
    \/ \E api \in {"execute", "scalars"} : \E shape \in Shapes :
           \E option \in {"none", "selectinload"} :
               LoadUsers(api, shape, option) /\ UNCHANGED lazy
    \/ \E api \in {"execute", "scalars"} : \E shape \in Shapes \ {"union_all"} :
           \E option \in {"none", "contains_eager", "selectinload"} :
               LoadAddresses(api, shape, option)
    \/ CloseSession

SpecOrm == InitOrm /\ [][NextOrm]_vars

(***************************************************************************)
(* Unit of work: the objects a script constructs (u1 with a1 and a2 of     *)
(* 3_working_with_related_objects.py), added to a Session, flushed,        *)
(* committed, rolled back and read again.                                  *)
(***************************************************************************)
\* u1 = User(...), a1 = Address(...), a2 = Address(...)
Oids == 1..3

ClassOf(o) == IF o = 1 THEN "User" ELSE "Address"

TableOf(cls) == IF cls = "User" THEN "user_account" ELSE "address"

\* User.name / Address.email_address given to the constructor
InitialVal(o) ==
    CASE o = 1 -> "pkrabs"
      [] o = 2 -> "pearl.krabs@gmail.com"
      [] OTHER -> "david.becks@gmail.com"

\* the value a later assignment gives the attribute
NewVal(o) ==
    CASE o = 1 -> "Pearl"
      [] o = 2 -> "pearl@krabs.com"
      [] OTHER -> "david@becks.com"

\* The objects right after construction: transient, no primary key.
Constructed ==
    [o \in Oids |-> [cls |-> ClassOf(o), state |-> "transient", pk |-> 0,
                     val |-> InitialVal(o), user_id |-> 0,
                     expired |-> FALSE, dirty |-> FALSE]]

Range(q) == {q[i] : i \in DOMAIN q}

\* u.addresses, in the order the script appended them
AddressesOf(u, L) == OrderById({a \in Oids : <<u, a>> \in L})

\* a.user (0: None)
UserOf(a, L) ==
    IF \E u \in Oids : <<u, a>> \in L THEN CHOOSE u \in Oids : <<u, a>> \in L ELSE 0

\* The objects the relationship attributes of o refer to.
RelatedTo(o, L) ==
    IF ClassOf(o) = "User" THEN AddressesOf(o, L)
    ELSE IF UserOf(o, L) = 0 THEN <<>> ELSE <<UserOf(o, L)>>

\* Variant of Cascade that stops at the objects the added one refers to directly.
CascadeOneLevel(todo, done, L) ==
    LET e == Head(todo)
        n == RelatedTo(e, L)
    IN  <<e>> \o SelectSeq(n, LAMBDA o : o # e)

\* save-update cascade of Session.add: the object, then what its relationship
\* attributes lead to, followed through both sides of the relationship.
RECURSIVE Cascade(_, _, _)
Cascade(todo, done, L) ==
    IF todo = <<>> THEN done
    ELSE IF Head(todo) \in Range(done) THEN Cascade(Tail(todo), done, L)
         ELSE Cascade(RelatedTo(Head(todo), L) \o Tail(todo), Append(done, Head(todo)), L)

\* One statement of the echo log.
Stmt(sql, tab, pk) == [sql |-> sql, tab |-> tab, pk |-> pk]

\* BEGIN / COMMIT / ROLLBACK lines as statements
Stmts(l) == [i \in DOMAIN l |-> Stmt(l[i], "", 0)]

\* The Session as one value: what its calls read and change.
Sess ==
    [objs |-> objs, links |-> links, pending |-> pending, imap |-> identity_map,
     txn |-> txn, tables |-> tables, stored |-> stored, emitted |-> <<>>, steps |-> <<>>]

\* the integer primary key SQLite gives the next row of a table
NextId(rows) ==
    IF rows = {} THEN 1
    ELSE (CHOOSE r \in rows : \A q \in rows : q.id <= r.id).id + 1

\* INSERT for the pending object o: the row gets a generated primary key; an Address
\* takes its user_id from the primary key of the User it is related to.
InsertOne(s, o) ==
    LET cls == s.objs[o].cls
        t   == TableOf(cls)
        id  == NextId(s.tables[t])
        u   == UserOf(o, s.links)
        fk  == IF cls = "Address" /\ u # 0 THEN s.objs[u].pk ELSE s.objs[o].user_id
        row == IF cls = "User"
               THEN [id |-> id, name |-> s.objs[o].val]
               ELSE [id |-> id, email_address |-> s.objs[o].val, user_id |-> fk]
    IN  [s EXCEPT !.tables[t] = @ \cup {row},
                  !.objs[o] = [@ EXCEPT !.state = "persistent", !.pk = id,
                                        !.user_id = fk, !.dirty = FALSE],
                  !.imap = @ \cup {[key |-> [cls |-> cls, pk |-> id], oid |-> o]},
                  !.emitted = Append(@, Stmt("INSERT", t, id))]

\* UPDATE for the modified persistent object o
UpdateOne(s, o) ==
    LET cls == s.objs[o].cls
        t   == TableOf(cls)
        id  == s.objs[o].pk
        new == IF cls = "User"
               THEN [id |-> id, name |-> s.objs[o].val]
               ELSE [id |-> id, email_address |-> s.objs[o].val,
                     user_id |-> s.objs[o].user_id]
    IN  [s EXCEPT !.tables[t] = {r \in @ : r.id # id} \cup {new},
                  !.objs[o] = [@ EXCEPT !.dirty = FALSE],
                  !.emitted = Append(@, Stmt("UPDATE", t, id))]

RECURSIVE WriteAll(_, _)
WriteAll(s, q) ==
    IF q = <<>> THEN s
    ELSE WriteAll(IF s.objs[Head(q)].state = "pending"
                  THEN InsertOne(s, Head(q)) ELSE UpdateOne(s, Head(q)),
                  Tail(q))

\* Variant of FlushOrder that writes the objects in the order they entered the Session.
FlushOrderAsAdded(q) == q

\* Order of the writes of a flush: user_account before address, which refers to it.
FlushOrder(q) ==
    SelectSeq(q, LAMBDA o : ClassOf(o) = "User")
        \o SelectSeq(q, LAMBDA o : ClassOf(o) = "Address")

\* flush: write what is modified or pending; begins the transaction if there is
\* something to write and none is active.
FlushStep(s) ==
    LET dirty == OrderById({o \in Oids : s.objs[o].state = "persistent" /\ s.objs[o].dirty})
        todo  == FlushOrder(dirty \o s.pending)
        b     == Autobegin(s.txn, <<>>)
        begun == [s EXCEPT !.txn = b.txn, !.emitted = @ \o Stmts(b.log)]
    IN  IF todo = <<>> THEN [s EXCEPT !.steps = Append(@, "flush")]
        ELSE [WriteAll(begun, todo) EXCEPT !.pending = <<>>, !.steps = Append(@, "flush")]

\* COMMIT on the Session's Connection
CommitStep(s) ==
    LET e == EndTransaction("COMMIT", s.txn, <<>>, s.stored, s.tables)
    IN  [s EXCEPT !.txn = e.txn, !.emitted = @ \o Stmts(e.log),
                  !.stored = e.db, !.tables = e.work,
                  !.steps = Append(@, "commit")]

\* expire_on_commit: the attribute values of every persistent object are discarded;
\* the objects stay in the identity map
ExpireStep(s) ==
    [s EXCEPT !.objs = [o \in Oids |->
                           IF s.objs[o].state = "persistent"
                           THEN [s.objs[o] EXCEPT !.expired = TRUE, !.val = "",
                                                  !.user_id = 0, !.dirty = FALSE]
                           ELSE s.objs[o]],
              !.steps = Append(@, "expire")]

\* Variant of CommitSteps that sends COMMIT before it flushes.
CommitStepsCommitFirst(s) == ExpireStep(FlushStep(CommitStep(s)))

\* Session.commit(): flush, COMMIT, expire
CommitSteps(s) == ExpireStep(CommitStep(FlushStep(s)))

\* Variant of RollbackStep that reverts the transaction but keeps the pending objects
\* scheduled.
RollbackStepKeepingPending(s) ==
    LET e == EndTransaction("ROLLBACK", s.txn, <<>>, s.stored, s.tables)
    IN  [s EXCEPT !.txn = e.txn, !.emitted = @ \o Stmts(e.log),
                  !.stored = e.db, !.tables = e.work,
                  !.steps = Append(@, "rollback")]

\* ROLLBACK on the Session's Connection; the objects that entered the Session since
\* the last commit leave it again (pending ones, and flushed ones whose row is gone).
RollbackStep(s) ==
    LET e    == EndTransaction("ROLLBACK", s.txn, <<>>, s.stored, s.tables)
        gone == {o \in Oids :
                    \/ s.objs[o].state = "pending"
                    \/ /\ s.objs[o].state = "persistent"
                       /\ ~\E r \in s.stored[TableOf(s.objs[o].cls)] : r.id = s.objs[o].pk}
    IN  [s EXCEPT !.txn = e.txn, !.emitted = @ \o Stmts(e.log),
                  !.stored = s.stored, !.tables = s.stored,
                  !.objs = [o \in Oids |->
                               IF o \in gone
                               THEN [s.objs[o] EXCEPT !.state = "transient", !.dirty = FALSE]
                               ELSE s.objs[o]],
                  !.imap = {m \in @ : m.oid \notin gone},
                  !.pending = <<>>,
                  !.steps = Append(@, "rollback")]

\* Session.rollback(): ROLLBACK, expire
RollbackSteps(s) == ExpireStep(RollbackStep(s))

\* The state a Session call leaves behind.
Becomes(s) ==
    /\ objs' = s.objs
    /\ pending' = s.pending
    /\ identity_map' = s.imap
    /\ txn' = s.txn
    /\ tables' = s.tables
    /\ stored' = s.stored
    /\ emitted' = s.emitted
    /\ steps' = s.steps

connRest == <<pc, style, handle, db, work, log, calls, prevOp, exc, propagated,
              cursor, rowcount, lastStmt, params, invoked, fetched, given,
              catalog, visible, driverTxn>>

loadRest == <<users, addresses, heap, firstLoad, result, related, lastQuery,
              contents, statements, delivered, lazy, relVars, metadata, tasks, actor>>

\* with Session(engine) as session: (the objects were constructed before it)
UowOpen ==
    /\ session = "closed"
    /\ \A o \in Oids : objs[o].state = "transient" /\ objs[o].pk = 0
    /\ session' = "open"
    /\ Becomes([Sess EXCEPT !.txn = "idle", !.imap = {}, !.tables = stored])
    /\ lastOp' = "open"
    /\ err' = "none"
    /\ arg' = 0
    /\ UNCHANGED <<links, snapshot>>
    /\ UNCHANGED <<connRest, loadRest>>

\* session.add(e); for an e that is already pending (it came in with another object)
\* the call changes nothing
SessionAdd(e) ==
    /\ session = "open"
    /\ objs[e].state \in {"transient", "pending"}
    /\ LET reach == Cascade(<<e>>, <<>>, links)
           fresh == SelectSeq(reach, LAMBDA o : objs[o].state = "transient")
       IN  /\ \A o \in Range(fresh) : objs[o].pk = 0
           /\ Becomes([Sess EXCEPT
                  !.pending = @ \o fresh,
                  !.objs = [o \in Oids |-> IF o \in Range(fresh)
                                           THEN [objs[o] EXCEPT !.state = "pending"]
                                           ELSE objs[o]]])
    /\ lastOp' = "add"
    /\ err' = "none"
    /\ arg' = e
    /\ session' = session
    /\ UNCHANGED <<links, snapshot>>
    /\ UNCHANGED <<connRest, loadRest>>

\* the flush alone, as session.flush() or the autoflush before a query runs it
SessionFlush ==
    /\ session = "open"
    /\ Becomes(FlushStep(Sess))
    /\ lastOp' = "flush"
    /\ err' = "none"
    /\ arg' = 0
    /\ session' = session
    /\ UNCHANGED <<links, snapshot>>
    /\ UNCHANGED <<connRest, loadRest>>

\* session.commit()
SessionCommit ==
    /\ session = "open"
    /\ Becomes(CommitSteps(Sess))
    /\ snapshot' = [o \in Oids |-> IF objs[o].state = "pending"
                                       \/ (objs[o].state = "persistent" /\ ~objs[o].expired)
                                    THEN objs[o].val ELSE snapshot[o]]
    /\ lastOp' = "commit"
    /\ err' = "none"
    /\ arg' = 0
    /\ session' = session
    /\ UNCHANGED links
    /\ UNCHANGED <<connRest, loadRest>>

\* session.rollback()
SessionRollback ==
    /\ session = "open"
    /\ Becomes(RollbackSteps(Sess))
    /\ lastOp' = "rollback"
    /\ err' = "none"
    /\ arg' = 0
    /\ session' = session
    /\ UNCHANGED <<links, snapshot>>
    /\ UNCHANGED <<connRest, loadRest>>

\* Variant of Reload that keeps what the object held when it was constructed.
ReloadFromConstructor(s, o) ==
    LET t == TableOf(s.objs[o].cls)
        b == Autobegin(s.txn, <<>>)
    IN  [s EXCEPT !.txn = b.txn,
                  !.emitted = @ \o Stmts(b.log) \o <<Stmt("SELECT", t, s.objs[o].pk)>>,
                  !.objs[o] = [@ EXCEPT !.expired = FALSE, !.val = InitialVal(o)],
                  !.steps = Append(@, "load")]

\* The reload of an expired object: SELECT ... WHERE id = pk, in a transaction that
\* is begun if none is active; the attributes take the values of the row.
Reload(s, o) ==
    LET t   == TableOf(s.objs[o].cls)
        b   == Autobegin(s.txn, <<>>)
        row == CHOOSE r \in s.tables[t] : r.id = s.objs[o].pk
    IN  [s EXCEPT !.txn = b.txn,
                  !.emitted = @ \o Stmts(b.log) \o <<Stmt("SELECT", t, s.objs[o].pk)>>,
                  !.objs[o] = [@ EXCEPT !.expired = FALSE,
                                        !.val = IF t = "user_account"
                                                THEN row.name ELSE row.email_address,
                                        !.user_id = IF t = "address" THEN row.user_id ELSE 0],
                  !.steps = Append(@, "load")]

\* print(u1) / user1.id on an expired object, with nothing waiting for a flush
ReadAttribute(o) ==
    /\ session = "open"
    /\ objs[o].state = "persistent" /\ objs[o].expired
    /\ pending = <<>>
    /\ Becomes(Reload(Sess, o))
    /\ lastOp' = "read"
    /\ err' = "none"
    /\ arg' = o
    /\ session' = session
    /\ UNCHANGED <<links, snapshot>>
    /\ UNCHANGED <<connRest, loadRest>>

\* o.name = ... / o.email_address = ... on an object whose attributes are loaded
SetAttribute(o) ==
    /\ objs[o].state \in {"transient", "pending", "persistent"}
    /\ ~objs[o].expired
    /\ objs[o].val = InitialVal(o)
    /\ objs' = [objs EXCEPT ![o] = [@ EXCEPT !.val = NewVal(o),
                                             !.dirty = (objs[o].state = "persistent")]]
    /\ lastOp' = "set"
    /\ err' = "none"
    /\ arg' = o
    /\ emitted' = <<>>
    /\ steps' = <<>>
    /\ UNCHANGED <<session, identity_map, txn, links, pending, tables, stored, snapshot>>
    /\ UNCHANGED <<connRest, loadRest>>

\* leaving the with Session(engine) block: session.close() rolls back what is open
\* and empties the Session; its objects are detached, pending ones transient again
SessionClose ==
    /\ session = "open"
    /\ session' = "closed"
    /\ LET r == Released("open", txn, <<>>, stored, tables, <<>>)
       IN  Becomes([Sess EXCEPT
               !.txn = r.txn, !.emitted = Stmts(r.log),
               !.stored = r.db, !.tables = r.work,
               !.imap = {}, !.pending = <<>>,
               !.objs = [o \in Oids |->
                            CASE objs[o].state = "persistent"
                                     -> [objs[o] EXCEPT !.state = "detached"]
                              [] objs[o].state = "pending"
                                     -> [objs[o] EXCEPT !.state = "transient"]
                              [] OTHER -> objs[o]],
               !.steps = <<"close">>])
    /\ lastOp' = "close"
    /\ err' = "none"
    /\ arg' = 0
    /\ UNCHANGED <<links, snapshot>>
    /\ UNCHANGED <<connRest, loadRest>>

\* Variant of DetachedRead that hands out the value the object held before the commit.
DetachedReadStale(ob) ==
    [err |-> "none", obj |-> [ob EXCEPT !.expired = FALSE]]

\* Reading an attribute of a detached object: a loaded attribute is returned; an
\* expired one would have to be loaded, and there is no Session to load it through.
DetachedRead(ob) ==
    [err |-> IF ob.expired THEN "DetachedInstanceError" ELSE "none", obj |-> ob]

\* print(u1) / print(u1.addresses) after the with Session(engine) block
ReadDetached(o) ==
    /\ session = "closed"
    /\ objs[o].state = "detached"
    /\ LET r == DetachedRead(objs[o])
       IN  /\ err' = r.err
           /\ objs' = [objs EXCEPT ![o] = r.obj]
    /\ lastOp' = "read_detached"
    /\ arg' = o
    /\ emitted' = <<>>
    /\ steps' = <<>>
    /\ UNCHANGED <<session, identity_map, txn, links, pending, tables, stored, snapshot>>
    /\ UNCHANGED <<connRest, loadRest>>

\* user_account as an earlier run may have left it
StoredUsers == {{}, {[id |-> 1, name |-> "Oliver"]}}

\* u1, a1 and a2 constructed, each Address appended to u1.addresses or not
InitUow ==
    /\ ConnInit
    /\ OrmIdle
    /\ objs = Constructed
    /\ links \in SUBSET {<<1, 2>>, <<1, 3>>}
    /\ pending = <<>>
    /\ \E us \in StoredUsers :
           /\ stored = [user_account |-> us, address |-> {}]
           /\ tables = stored
    /\ emitted = <<>>
    /\ steps = <<>>
    /\ snapshot = [o \in Oids |-> ""]
    /\ arg = 0

NextUow ==
    \/ UowOpen
    \/ \E e \in Oids : SessionAdd(e)
    \/ SessionFlush
    \/ SessionCommit
    \/ SessionRollback
    \/ \E o \in Oids : ReadAttribute(o)
    \/ \E o \in Oids : SetAttribute(o)
    \/ SessionClose
    \/ \E o \in Oids : ReadDetached(o)

SpecUow == InitUow /\ [][NextUow]_vars

(***************************************************************************)
(* Core INSERT statements sent through a Session                           *)
(* (session.execute(insert(User).values(...)) of 1_working_with_data.py),  *)
(* against the tables and constraints data/db_config.py declares.          *)
(***************************************************************************)
\* What the database does with the row of an INSERT. The primary key is unique: a
\* second row with a stored id is refused and the table is left as it was. The
\* foreign key address.user_id is declared but the engine never switches on SQLite's
\* foreign key enforcement, so user_id is stored whatever user_account holds.
InsertOutcome(rows, row) ==
    IF \E r \in rows : r.id = row.id
    THEN [err |-> "ConstraintError", rows |-> rows]
    ELSE [err |-> "none", rows |-> rows \cup {row}]

\* session.execute(insert(T).values(...)): id 0 stands for no id given (generated);
\* the statement runs in the Session's transaction, begun if none is active, and a
\* failure leaves that transaction as it is.
ExecuteInsert(t, id, fk) ==
    /\ session = "open"
    /\ pending = <<>>
    /\ Cardinality(tables[t]) < MaxRows
    /\ LET b   == Autobegin(txn, <<>>)
           key == IF id = 0 THEN NextId(tables[t]) ELSE id
           row == IF t = "user_account"
                  THEN [id |-> key, name |-> "spongebob"]
                  ELSE [id |-> key, email_address |-> "spongebob@sqlalchemy.org",
                        user_id |-> fk]
           out == IF t \in visible THEN InsertOutcome(tables[t], row)
                  ELSE [err |-> "OperationalError", rows |-> tables[t]]
       IN  /\ txn' = b.txn
           /\ tables' = [tables EXCEPT ![t] = out.rows]
           /\ err' = out.err
           /\ emitted' = Stmts(b.log) \o <<Stmt("INSERT", t, key)>>
           /\ params' = <<[tab |-> t, id |-> key, user_id |-> fk]>>
    /\ steps' = <<"execute">>
    /\ lastOp' = "insert"
    /\ lastStmt' = "insert"
    /\ arg' = 0
    /\ UNCHANGED <<session, identity_map, objs, links, pending, stored, snapshot>>
    /\ UNCHANGED <<pc, style, handle, db, work, log, calls, prevOp, exc, propagated,
                   cursor, rowcount, invoked, fetched, given,
                   catalog, visible, driverTxn>>
    /\ UNCHANGED loadRest

\* a database that holds one user, or none
InitInsert ==
    /\ ConnInit
    /\ OrmIdle
    /\ objs = Constructed
    /\ links = {}
    /\ pending = <<>>
    /\ \E us \in StoredUsers :
           /\ stored = [user_account |-> us, address |-> {}]
           /\ tables = stored
    /\ emitted = <<>>
    /\ steps = <<>>
    /\ snapshot = [o \in Oids |-> ""]
    /\ arg = 0

NextInsert ==
    \/ UowOpen
    \/ \E id \in 0..2 : ExecuteInsert("user_account", id, 0)
    \/ \E id \in 0..1 : \E fk \in 1..2 : ExecuteInsert("address", id, fk)
    \/ SessionCommit
    \/ SessionRollback
    \/ SessionClose

SpecInsert == InitInsert /\ [][NextInsert]_vars

(***************************************************************************)
(* Properties of the transaction lifecycle (specification Spec).           *)
(***************************************************************************)
Count(l, e) == Cardinality({i \in DOMAIN l : l[i] = e})

Last(l) == l[Len(l)]

\* C2, as stated: an execute issued while no transaction is active fails with
\* StateError and runs no statement; the first execute of a fresh block is rejected.
C2_ExecuteOutsideTransactionRejected ==
    [][(lastOp' = "execute" /\ txn = "idle")
          => (err' = "StateError" /\ work' = work /\ log' = log)]_vars

\* C2, amended: an execute issued while no transaction is active does not fail with
\* StateError; it implicitly begins a transaction ("BEGIN (implicit)") and then sends
\* the statement, so the first execute of a fresh block needs no begin().
C2_ExecuteAutobegins ==
    [][(lastOp' = "execute" /\ txn = "idle")
          => /\ err' # "StateError"
             /\ txn' = "active"
             /\ log' = log \o <<"BEGIN", "EXEC">>
             /\ (err' = "none" => work' = Invoke(work, lastStmt', params'[1]).tab)]_vars

\* C2 witness: the first call of a commit-as-you-go block is an insert with no begin()
\* before it; it ran inside an implicitly begun transaction.
C2_FirstExecuteWithoutBegin ==
    /\ pc = "body" /\ style = "connect" /\ calls = 1
    /\ lastOp = "execute" /\ lastStmt = "insert" /\ err = "none"
    /\ log = <<"BEGIN", "EXEC">>
    /\ txn = "active"
    /\ work # db

\* C3, as stated: commit() or rollback() on an idle Connection fails with StateError
\* and leaves the Connection state and the database contents unchanged.
C3_EndWithoutTransactionRejected ==
    [][(lastOp' \in {"commit", "rollback"} /\ txn = "idle")
          => (err' = "StateError" /\ txn' = txn /\ db' = db)]_vars

\* C3, amended: commit() or rollback() on an idle Connection raises no error and has
\* no effect: transaction state, database contents and what was sent to the driver
\* stay as they were; this includes a commit() directly after a successful commit().
C3_EndWithoutTransactionIsNoOp ==
    [][(lastOp' \in {"commit", "rollback"} /\ txn = "idle")
          => /\ err' = "none"
             /\ txn' = "idle"
             /\ handle' = handle
             /\ db' = db
             /\ work' = work
             /\ log' = log]_vars

\* C3 witness: insert, commit, commit: the second commit came directly after a
\* commit that sent COMMIT, and nothing was sent for it.
C3_SecondCommit ==
    /\ lastOp = "commit" /\ prevOp = "commit" /\ calls = 3
    /\ log = <<"BEGIN", "EXEC", "COMMIT">>
    /\ err = "none" /\ txn = "idle"
    /\ db # <<>>

\* C4: begin() on a Connection already in a transaction fails with StateError and
\* leaves the active transaction and its uncommitted effects unchanged; no second
\* transaction is started.
C4_BeginInsideTransactionRejected ==
    [][(lastOp' = "begin" /\ txn = "active")
          => /\ err' = "StateError"
             /\ txn' = "active"
             /\ work' = work
             /\ db' = db
             /\ log' = log]_vars

\* C4 witness: begin() was rejected while the transaction held an uncommitted insert.
C4_BeginRejectedWithUncommittedWork ==
    /\ lastOp = "begin" /\ err = "StateError"
    /\ txn = "active"
    /\ work # db

\* C5, as stated: every execute step, successful or failing, and every cursor fetch
\* leaves the transaction state unchanged.
C5_ExecuteKeepsTransactionState ==
    [][(lastOp' \in {"execute", "fetch"}) => txn' = txn]_vars

\* C5, amended: the transaction state changes only in begin, commit, rollback and
\* close steps (entering a begin-block is a begin step) and in an execute step issued
\* while idle, which implicitly begins a transaction; an execute inside a transaction,
\* successful or failing, and every cursor fetch leave it unchanged.
C5_TransactionStateChanges ==
    [][txn' # txn
          => \/ lastOp' \in {"open", "begin", "commit", "rollback", "close"}
             \/ (lastOp' = "execute" /\ txn = "idle" /\ txn' = "active")]_vars

\* C5 witness: a failing execute was the first call of the block: it began the
\* transaction implicitly and the transaction is still active after the error.
C5_FailingExecuteBegan ==
    /\ lastOp = "execute" /\ err = "SyntaxError" /\ calls = 1
    /\ style = "connect"
    /\ txn = "active"
    /\ log = <<"BEGIN", "EXEC">>

\* C7: close() on an already closed Connection raises no error and changes nothing.
C7_CloseIdempotent ==
    [][(lastOp' = "close" /\ handle = "closed")
          => /\ err' = "none"
             /\ handle' = "closed"
             /\ UNCHANGED <<txn, db, work, log, cursor>>]_vars

\* C7 witness: two close() calls in a row, the second on a closed Connection.
C7_ClosedTwice ==
    /\ lastOp = "close" /\ prevOp = "close"
    /\ handle = "closed" /\ err = "none"

C9_BeginOnceFraming ==
    /\ []((style = "begin" /\ pc \in {"closing", "out"})
            => IF exc
               THEN /\ Count(log, "COMMIT") = 0
                    /\ Count(log, "ROLLBACK") = 1
                    /\ Last(log) = "ROLLBACK"
                    /\ txn = "idle"
                    /\ (pc = "closing" => ~propagated)
                    /\ (pc = "out" => propagated)
               ELSE /\ Count(log, "COMMIT") = 1
                    /\ Count(log, "ROLLBACK") = 0
                    /\ Last(log) = "COMMIT"
                    /\ txn = "idle"
                    /\ ~propagated)
    /\ [][(style = "begin" /\ pc = "body" /\ pc' = "closing")
             => db' = (IF exc' THEN db ELSE work)]_vars

\* C9 witness: a begin-block whose body raised after an insert: rolled back, nothing
\* committed, the exception propagated.
C9_RaisedBlockRolledBack ==
    /\ style = "begin" /\ pc = "out" /\ exc /\ propagated
    /\ log = <<"BEGIN", "EXEC", "ROLLBACK">>
    /\ lastStmt = "insert"

RECURSIVE AfterSingles(_, _, _, _)
AfterSingles(t, kind, ps, k) ==
    IF k = 0 THEN t ELSE Invoke(AfterSingles(t, kind, ps, k - 1), kind, ps[k]).tab

RECURSIVE SumOfCounts(_, _, _, _)
SumOfCounts(t, kind, ps, k) ==
    IF k = 0 THEN 0
    ELSE SumOfCounts(t, kind, ps, k - 1)
             + Invoke(AfterSingles(t, kind, ps, k - 1), kind, ps[k]).rc

\* C10: one execute with n >= 2 parameter sets (no RETURNING) invokes the statement
\* exactly n times, in input order; its affected-row count is the sum of the per-set
\* counts and the contents afterwards are those of n single executions in that order.
C10_BatchIsSequenceOfSingles ==
    [][lastOp' = "executemany"
          => LET n == Len(params')
             IN  /\ n >= 2
                 /\ invoked' = params'
                 /\ Count(log', "EXEC") = Count(log, "EXEC") + n
                 /\ rowcount' = SumOfCounts(work, lastStmt', params', n)
                 /\ work' = AfterSingles(work, lastStmt', params', n)
                 /\ err' = "none"]_vars

\* C10 witness: the batched UPDATE of 0_intro.py on a table holding (6,8) and (9,5):
\* the first set changes one row, the second none.
C10_BatchedUpdate ==
    /\ lastOp = "executemany" /\ lastStmt = "update"
    /\ params = <<[x |-> 9, y |-> 11], [x |-> 13, y |-> 15]>>
    /\ invoked = params
    /\ rowcount = 1
    /\ work = <<[x |-> 6, y |-> 8], [x |-> 9, y |-> 11]>>

\* C11: one execute with n >= 2 parameter sets delivers no result rows when the
\* statement has no RETURNING column list, and exactly one result row per parameter
\* set, in input order, when it is an insert that declares one.
C11_BatchRowsOnlyWithReturning ==
    [][lastOp' = "executemany"
          => IF lastStmt' = "insert_returning"
             THEN /\ Len(cursor') = Len(params')
                  /\ \A i \in DOMAIN params' : cursor'[i] = params'[i]
             ELSE cursor' = <<>>]_vars

\* C11 witness: the batched insert(...).returning(...) with two parameter sets left
\* two rows in the Result, one per set.
C11_ReturningBatchOfTwo ==
    /\ lastOp = "executemany" /\ lastStmt = "insert_returning"
    /\ Len(params) = 2 /\ params[1] # params[2]
    /\ cursor = params
    /\ rowcount = 2

(***************************************************************************)
(* Properties of ORM loading (specification SpecOrm).                      *)
(***************************************************************************)
\* C1: in every reachable state of a Session there is at most one in-memory instance
\* registered per (entity type, primary key), and every load of a row, by execute or
\* scalars, with or without an eager-loading option, delivers the instance the
\* Session produced for that row the first time.
C1_IdentityMapUnique ==
    /\ \A e1, e2 \in identity_map : e1.key = e2.key => e1.oid = e2.oid
    /\ \A i, j \in DOMAIN heap :
           (heap[i].state = "persistent" /\ heap[j].state = "persistent"
            /\ KeyOf(heap[i]) = KeyOf(heap[j])) => i = j
    /\ \A i \in DOMAIN result : firstLoad[KeyOf(heap[result[i]])] = result[i]
    /\ \A i \in DOMAIN related : firstLoad[KeyOf(heap[related[i]])] = related[i]

\* C1 witness: a select(Address) with contains_eager reached a User that an earlier
\* statement of the same Session had loaded: the object delivered for Address.user is
\* older than the Address objects this statement built.
C1_SecondLoadSameInstance ==
    /\ session = "open"
    /\ lastQuery.entity = "Address" /\ lastQuery.option = "contains_eager"
    /\ result # <<>>
    /\ related[1] < result[1]
    /\ heap[related[1]].state = "persistent"

\* the identities of a sequence of objects
KeysOf(h, q) == [i \in DOMAIN q |-> KeyOf(h[q[i]])]

\* relationship contents by identity
ByKey(h, S) == {[owner |-> KeyOf(h[c.owner]), member |-> KeyOf(h[c.member])] : c \in S}

\* C19: for the same select(Address) statement over the same tables and the same
\* Session, loading Address.user with the eager join and loading it with the second
\* SELECT deliver the same Address identities in the same order with the same User
\* attached to each, and leave the same identities in the Session; the load that ran
\* delivered exactly that, with one User per Address. The join takes one statement,
\* the other strategy two (one when the statement returned no row).
C19_LoadStrategiesAgree ==
    [][(/\ session = "open" /\ session' = "open"
        /\ lastQuery'.entity = "Address"
        /\ lastQuery'.option \in {"contains_eager", "selectinload"})
          => LET rows == AddressRows(lastQuery'.shape)
                 j    == JoinLoad(heap, identity_map, rows)
                 s    == SelectInLoad(heap, identity_map, rows)
             IN  /\ KeysOf(j.heap, j.out) = KeysOf(s.heap, s.out)
                 /\ ByKey(j.heap, j.contents) = ByKey(s.heap, s.contents)
                 /\ {e.key : e \in j.imap} = {e.key : e \in s.imap}
                 /\ KeysOf(heap', result') = KeysOf(j.heap, j.out)
                 /\ ByKey(heap', contents') = ByKey(j.heap, j.contents)
                 /\ \A i \in DOMAIN result' :
                        Cardinality({c \in contents' : c.owner = result'[i]}) = 1
                 /\ \A c \in contents' :
                        \E a \in addresses :
                            /\ heap'[c.owner].pk = a.id
                            /\ heap'[c.member].pk = a.user_id
                 /\ j.statements = 1
                 /\ s.statements = (IF rows = <<>> THEN 1 ELSE 2)
                 /\ statements' = (IF lastQuery'.option = "contains_eager"
                                   THEN j.statements ELSE s.statements)]_vars

\* C19 witness: the statement without a name filter, loaded with the second SELECT,
\* delivered both Address objects, each with its own User, in two statements.
C19_SelectInLoadedTwoUsers ==
    /\ session = "open"
    /\ lastQuery.entity = "Address" /\ lastQuery.option = "selectinload"
    /\ lastQuery.shape = "all"
    /\ statements = 2
    /\ Len(result) = 2
    /\ ByKey(heap, contents) =
           {[owner |-> [cls |-> "Address", pk |-> a.id],
             member |-> [cls |-> "User", pk |-> a.user_id]] : a \in AddressTable}

(***************************************************************************)
(* Properties of the unit of work (specification SpecUow).                 *)
(***************************************************************************)
\* the objects a Session holds: pending or persistent
Tracked(os) == {o \in Oids : os[o].state \in {"pending", "persistent"}}

\* the identity map entry an object with a primary key is registered under
EntryOf(os, o) == [key |-> [cls |-> os[o].cls, pk |-> os[o].pk], oid |-> o]

\* the row of object o in a database state (<<>>: no such row)
RowOf(tabs, os, o) ==
    LET rs == {r \in tabs[TableOf(os[o].cls)] : r.id = os[o].pk}
    IN  IF rs = {} THEN <<>> ELSE CHOOSE r \in rs : TRUE

\* the mapped attribute of a row
ValOf(r) == IF "name" \in DOMAIN r THEN r.name ELSE r.email_address

C15_ParentInsertedBeforeChild ==
    [][lastOp' \in {"flush", "commit"} =>
          \A l \in links :
              (objs[l[1]].state = "pending" /\ objs[l[2]].state = "pending")
                  => /\ objs'[l[1]].pk > 0
                     /\ \E i, j \in DOMAIN emitted' :
                            /\ i < j
                            /\ emitted'[i] = Stmt("INSERT", "user_account", objs'[l[1]].pk)
                            /\ emitted'[j] = Stmt("INSERT", "address", objs'[l[2]].pk)
                     /\ RowOf(tables', objs', l[2]) # <<>>
                     /\ RowOf(tables', objs', l[2]).user_id = objs'[l[1]].pk]_vars

\* C15 witness: a flush after session.add(a2): a2 entered the Session first (its row
\* got the first address id), u1 and a1 came in by cascade; the user_account INSERT
\* was still the first one, and a2's row carries u1's generated id 2.
C15_ChildAddedFirst ==
    /\ lastOp = "flush"
    /\ links = {<<1, 2>>, <<1, 3>>}
    /\ objs[3].pk = 1 /\ objs[2].pk = 2 /\ objs[1].pk = 2
    /\ emitted = <<Stmt("BEGIN", "", 0), Stmt("INSERT", "user_account", 2),
                   Stmt("INSERT", "address", 1), Stmt("INSERT", "address", 2)>>
    /\ RowOf(tables, objs, 3).user_id = 2
    /\ stored.address = {}

\* C16: round trip. Reading an attribute of an object after the commit that wrote it
\* (the reload of the expired object, a SELECT by primary key) gives the value the
\* attribute had when commit() was called, and that is the value of the row with the
\* object's generated primary key; the primary key is the one the flush gave it.
C16_RoundTripAfterCommit ==
    [][lastOp' = "read" =>
          /\ objs[arg'].state = "persistent" /\ objs[arg'].expired
          /\ objs'[arg'].val = snapshot[arg']
          /\ ~objs'[arg'].expired
          /\ objs'[arg'].pk = objs[arg'].pk /\ objs'[arg'].pk > 0
          /\ Last(emitted') = Stmt("SELECT", TableOf(ClassOf(arg')), objs[arg'].pk)
          /\ RowOf(tables', objs', arg') # <<>>
          /\ ValOf(RowOf(tables', objs', arg')) = snapshot[arg']
          /\ tables' = tables]_vars

\* C16 witness: a1 was given a new email address before the commit; reading it after
\* the commit reloaded that address, not the constructor's, together with the
\* generated primary key and the user_id of its User.
C16_ReadBackModifiedAddress ==
    /\ lastOp = "read" /\ arg = 2
    /\ steps = <<"load">>
    /\ snapshot[2] = NewVal(2)
    /\ objs[2].val = NewVal(2) /\ ~objs[2].expired
    /\ objs[2].pk = 1
    /\ objs[2].user_id = objs[1].pk /\ objs[1].pk = 2

Neighbours(S, L) ==
    S \cup {a \in Oids : \E u \in S : <<u, a>> \in L}
      \cup {u \in Oids : \E a \in S : <<u, a>> \in L}

\* the objects reachable from S through any chain of relationship attributes
RECURSIVE Reachable(_, _)
Reachable(S, L) == IF Neighbours(S, L) = S THEN S ELSE Reachable(Neighbours(S, L), L)

\* C18: session.add(e) makes pending exactly e and the transient objects reachable
\* from e through any chain of relationship attributes, the collection User.addresses
\* and the single-valued Address.user alike: the pending objects after the call are
\* those pending before it plus these, each once, and the objects marked pending are
\* the ones in the pending list.
C18_AddCascadesOverGraph ==
    [][lastOp' = "add" =>
          /\ Range(pending') =
                 Range(pending)
                     \cup {o \in Reachable({arg'}, links) : objs[o].state = "transient"}
          /\ Len(pending') = Cardinality(Range(pending'))
          /\ \A o \in Oids : (objs'[o].state = "pending") = (o \in Range(pending'))
          /\ \A o \in Oids : objs[o].state # "transient" => objs'[o] = objs[o]
          /\ objs[arg'].state = "transient" => pending'[Len(pending) + 1] = arg']_vars

\* C18 witness: session.add(a2) with a1 and a2 both in u1.addresses: u1 came in through
\* a2.user, and a1 through u1.addresses, two steps away from a2.
C18_AddOfChildReachesSibling ==
    /\ lastOp = "add" /\ arg = 3
    /\ links = {<<1, 2>>, <<1, 3>>}
    /\ pending = <<3, 1, 2>>
    /\ \A o \in Oids : objs[o].state = "pending"

(***************************************************************************)
(* Properties of constraint violations (specification SpecInsert).         *)
(***************************************************************************)
\* C12: an INSERT into address whose user_id names no row of user_account violates
\* the foreign key: execute fails with ConstraintError and no row is inserted.
C12_ForeignKeyViolationRejected ==
    [][(/\ lastOp' = "insert"
        /\ params'[1].tab = "address"
        /\ ~\E u \in tables.user_account : u.id = params'[1].user_id)
           => (err' = "ConstraintError" /\ tables' = tables)]_vars

(***************************************************************************)
(* Properties of parameter lists (specification SpecBatch).                *)
(***************************************************************************)
\* C28: an execute whose parameter argument is a list holding exactly one parameter
\* set is a single invocation, not an executemany: the statement is sent once with
\* that parameter set, and the Result, the row count and the table are those of the
\* same statement run with the parameter set passed by itself; a SELECT so run
\* delivers its rows.
C28_ListOfOneIsSingleExecute ==
    [][(lastOp' \in {"execute", "executemany"} /\ given' = "list" /\ Len(params') = 1)
          => LET r == Invoke(work, lastStmt', params'[1])
             IN  /\ lastOp' = "execute"
                 /\ invoked' = params'
                 /\ cursor' = r.rows
                 /\ rowcount' = r.rc
                 /\ work' = r.tab
                 /\ err' = "none"]_vars

\* C28 witness: SELECT ... WHERE y > :rate run with params = [{"rate": 6}] over a
\* table with two rows, one of them with y > 6: the Result holds that row.
C28_SelectWithListOfOne ==
    /\ lastOp = "execute" /\ given = "list"
    /\ lastStmt = "select" /\ params = <<[x |-> 0, y |-> 6]>>
    /\ Len(work) = 2
    /\ Len(cursor) = 1 /\ cursor[1].y > 6

(***************************************************************************)
(* Visibility across Sessions: one Session after another on the same       *)
(* database, which starts without some_table (0_intro.py creates it).      *)
(***************************************************************************)

InitVisible ==
    /\ ConnIdle
    /\ metadata = Registered
    /\ catalog = {"user_account", "address"}
    /\ visible = catalog
    /\ OrmIdle
    /\ UowIdle

NextVisible ==
    \/ Open("connect")
    \/ \E kind \in {"create", "insert", "update", "select"} :
           \E p \in ParamsOf(kind) : Execute(kind, p)
    \/ Commit
    \/ Rollback
    \/ \E raised \in BOOLEAN : ScopeExit(raised)

SpecVisible == InitVisible /\ [][NextVisible]_vars

\* C30: a Session opened later sees exactly what earlier Sessions committed: the
\* database (rows and tables) changes only by a commit, which stores what the
\* committing transaction saw, so nothing a Session executed and left uncommitted
\* when it was closed or rolled back is there for the next Session.
C30_OnlyCommittedIsVisible ==
    [][/\ lastOp' = "open" => (work' = db' /\ visible' = catalog')
       /\ (db' # db \/ catalog' # catalog)
             => (lastOp' = "commit" /\ db' = work /\ catalog' = visible)]_vars

(***************************************************************************)
(* Rows and scalars: what iterating a Result of select(User) and of        *)
(* select(User.name, User.fullname) yields (1_working_with_data.py).       *)
(***************************************************************************)

Apis == {"execute", "execute_scalars", "scalars"}

NextRows ==
    \/ OpenSession
    \/ \E api \in Apis : \E shape \in Shapes :
           LoadUsers(api, shape, "none") /\ UNCHANGED lazy
    \/ \E api \in Apis : \E shape \in Shapes : LoadColumns(api, shape)
    \/ CloseSession

SpecRows == InitOrm /\ [][NextRows]_vars

\* the User objects of the rows of the last select(User), which are the objects of
\* the identity map for the rows' primary keys, in row order
LoadedUsers(shape) ==
    LET rows == UserRows(shape)
    IN  [i \in DOMAIN rows |->
            (CHOOSE e \in identity_map : e.key = [cls |-> "User", pk |-> rows[i]]).oid]

\* C21: scalars yields the first element of each row: the first column's value
\* (User.name, the fullname dropped) for select(User.name, User.fullname), the User
\* object itself for select(User), where execute yields one-element rows holding it;
\* session.scalars(stmt) and session.execute(stmt).scalars() yield the same sequence.
C21_ScalarsYieldFirstElement ==
    (session = "open" /\ lastQuery.entity \in {"User", "columns"})
        => LET shape == lastQuery.shape
               keys  == UserRows(shape)
               first == IF lastQuery.entity = "User"
                        THEN LoadedUsers(shape)
                        ELSE [i \in DOMAIN keys |-> NameOf(keys[i])]
           IN  /\ lastQuery.api \in {"scalars", "execute_scalars"} => delivered = first
               /\ lastQuery.api = "execute"
                     => /\ DOMAIN delivered = DOMAIN first
                        /\ \A i \in DOMAIN first :
                              /\ delivered[i][1] = first[i]
                              /\ Len(delivered[i]) = IF lastQuery.entity = "User" THEN 1 ELSE 2
               /\ lastQuery.entity = "User"
                     => \A i \in DOMAIN first : heap[first[i]].cls = "User"
                                                /\ heap[first[i]].pk = keys[i]

\* session.scalars(select(User.name, User.fullname)) over both users gave the names
C21_ScalarsOverTwoColumns ==
    /\ session = "open"
    /\ lastQuery = [entity |-> "columns", shape |-> "all", option |-> "none", api |-> "scalars"]
    /\ delivered = <<"Oliver", "Ana">>

(***************************************************************************)
(* Relationship loading cost: select(User) with and without                *)
(* selectinload(User.addresses), then reading row.User.addresses           *)
(* (3_working_with_related_objects.py).                                    *)
(***************************************************************************)

NextLazy ==
    \/ OpenSession
    \/ \E shape \in Shapes \ {"union_all"} : \E option \in {"none", "selectinload"} :
           LoadUsers("execute", shape, option) /\ Populate(option)
    \/ \E o \in 1..(Cardinality(UserTable) + Cardinality(AddressTable)) : ReadAddresses(o)
    \/ CloseSession

SpecLazy == InitOrm /\ [][NextLazy]_vars

\* the User objects the last query returned
Parents == {result[i] : i \in DOMAIN result}

\* the (owner, member) pairs the address rows of the database prescribe for the
\* collections of the User objects in P
Prescribed(P) ==
    {[owner |-> o, member |-> e.oid] :
        <<o, e>> \in {<<q, f>> \in P \X identity_map :
                        /\ f.key.cls = "Address"
                        /\ \E a \in addresses : a.id = f.key.pk /\ a.user_id = heap[q].pk}}

C27_DetachedExpiredReadFails ==
    [][/\ lastOp' = "close"
             => \A o \in Oids :
                   objs[o].state = "persistent"
                       => (objs'[o].state = "detached" /\ objs'[o].expired = objs[o].expired)
       /\ lastOp' = "read_detached"
             => /\ objs[arg'].state = "detached"
                /\ objs[arg'].expired
                      => /\ err' = "DetachedInstanceError"
                         /\ objs' = objs
                         /\ emitted' = <<>>
                         /\ stored' = stored /\ tables' = tables]_vars

\* u1 was committed, the Session was closed, and print(u1) raised
C27_ReadAfterCommitAndClose ==
    /\ session = "closed"
    /\ lastOp = "read_detached" /\ arg = 1
    /\ objs[1].state = "detached" /\ objs[1].expired
    /\ err = "DetachedInstanceError"
    /\ \E r \in stored.user_account : r.name = "pkrabs"

(***************************************************************************)
(* Bidirectional relationship User.addresses / Address.user                *)
(* (relationship(back_populates=...) of data/db_config.py) on objects that *)
(* are in no Session.                                                      *)
(***************************************************************************)

\* list.remove(a): the list without its first a
RECURSIVE Without(_, _)
Without(l, a) ==
    IF l = <<>> THEN <<>>
    ELSE IF Head(l) = a THEN Tail(l) ELSE <<Head(l)>> \o Without(Tail(l), a)

Holds(l, a) == \E i \in DOMAIN l : l[i] = a

\* a.user = u (u a User or None) with back_populates="addresses": the Address leaves
\* the collection of the User it had and enters the collection of u
SetParent(c, p, a, u) ==
    LET old  == p[a]
        left == IF old # "None" /\ old # u
                THEN [c EXCEPT ![old] = Without(c[old], a)] ELSE c
        in   == IF u # "None" /\ ~Holds(left[u], a)
                THEN [left EXCEPT ![u] = Append(left[u], a)] ELSE left
    IN  [collection |-> in, parent |-> [p EXCEPT ![a] = u]]

\* Variant of AppendTo without the back-population: only the list changes.
AppendToOnly(c, p, u, a) ==
    [collection |-> [c EXCEPT ![u] = Append(c[u], a)], parent |-> p]

\* u.addresses.append(a) with back_populates="user": a.user becomes u, and with that
\* the Address leaves the collection of the User it had
AppendTo(c, p, u, a) ==
    LET old  == p[a]
        left == IF old # "None" /\ old # u
                THEN [c EXCEPT ![old] = Without(c[old], a)] ELSE c
    IN  [collection |-> [left EXCEPT ![u] = Append(left[u], a)],
         parent     |-> [p EXCEPT ![a] = u]]

\* u.addresses.remove(a): a.user becomes None
RemoveFrom(c, p, u, a) ==
    [collection |-> [c EXCEPT ![u] = Without(c[u], a)],
     parent     |-> [p EXCEPT ![a] = "None"]]

\* the rest of the state, which no relationship mutation of objects outside a
\* Session touches
RelRest == <<connVars, users, addresses, session, heap, identity_map, firstLoad, result,
             related, lastQuery, contents, statements, delivered, lazy,
             objs, links, pending, tables, stored, emitted, steps, snapshot, arg, metadata,
             tasks, actor>>

\* u1.addresses.append(a1), for an Address not yet in the list
AddressesAppend(u, a) ==
    /\ ~Holds(collection[u], a)
    /\ LET r == AppendTo(collection, parent, u, a)
       IN  collection' = r.collection /\ parent' = r.parent
    /\ mutation' = [op |-> "append", user |-> u, address |-> a]
    /\ UNCHANGED RelRest

\* u1.addresses.remove(a1)
AddressesRemove(u, a) ==
    /\ Holds(collection[u], a)
    /\ LET r == RemoveFrom(collection, parent, u, a)
       IN  collection' = r.collection /\ parent' = r.parent
    /\ mutation' = [op |-> "remove", user |-> u, address |-> a]
    /\ UNCHANGED RelRest

\* a1.user = u1 / a1.user = None
SetUser(a, u) ==
    /\ LET r == SetParent(collection, parent, a, u)
       IN  collection' = r.collection /\ parent' = r.parent
    /\ mutation' = [op |-> "set", user |-> u, address |-> a]
    /\ UNCHANGED RelRest

InitRel == ConnInit /\ OrmIdle /\ UowIdle

NextRel ==
    \/ \E u \in RelUsers : \E a \in RelAddresses : AddressesAppend(u, a)
    \/ \E u \in RelUsers : \E a \in RelAddresses : AddressesRemove(u, a)
    \/ \E a \in RelAddresses : \E u \in RelUsers \cup {"None"} : SetUser(a, u)

SpecRel == InitRel /\ [][NextRel]_vars

Schemas ==
    {Registered,
     [Registered EXCEPT !.fkeys = @ \cup {<<"user_account", "address">>}]}

\* the tables t refers to through a foreign key (itself excepted) among those in S
RefersTo(md, t, S) == {r \in S \ {t} : <<t, r>> \in md.fkeys}

\* Topological sort of the tables todo (a sequence in declaration order): the first
\* table that refers to no table still to come is next.  When every table left
\* refers to another one left, the foreign keys among them are a cycle; they are
\* taken out of the sort and the tables follow in declaration order.
RECURSIVE SortTables(_, _)
SortTables(md, todo) ==
    IF todo = <<>> THEN <<>>
    ELSE LET left  == Range(todo)
             ready == {i \in DOMAIN todo : RefersTo(md, todo[i], left) = {}}
         IN  IF ready = {} THEN todo
             ELSE LET i == CHOOSE j \in ready : \A k \in ready : j <= k
                  IN  <<todo[i]>> \o SortTables(md, SelectSeq(todo, LAMBDA t : t # todo[i]))

\* the foreign keys of md contain a cycle
Cyclic(md) == \E t \in Range(md.tables) : \E r \in Range(md.tables) :
                  t # r /\ <<t, r>> \in md.fkeys /\ <<r, t>> \in md.fkeys

Reverse(q) == [i \in DOMAIN q |-> q[Len(q) + 1 - i]]

\* Variant of CreateOrder that creates the tables in declaration order reversed.
CreateOrderReversed(md) == Reverse(md.tables)

\* the order in which create_all visits the tables
CreateOrder(md) == SortTables(md, md.tables)

\* the order in which drop_all visits the tables: the sort reversed; on SQLite, which
\* cannot ALTER a constraint away, a cycle leaves the tables unsorted (with a warning)
DropOrder(md) == IF Cyclic(md) THEN md.tables ELSE Reverse(CreateOrder(md))

\* Variant of Missing that takes every table as missing (no check for existence).
MissingUnchecked(order, cat) == order

\* checkfirst: the tables of the order that the database does not have yet
Missing(order, cat) == SelectSeq(order, LAMBDA t : t \notin cat)

\* Base.metadata.create_all(engine): CREATE TABLE for every registered table that
\* does not exist, committed at once; creating a table that exists would fail
CreateAll ==
    /\ session = "closed"
    /\ LET todo == Missing(CreateOrder(metadata), catalog)
           dup  == \E i \in DOMAIN todo : todo[i] \in catalog
       IN  /\ emitted' = [i \in DOMAIN todo |-> Stmt("CREATE TABLE", todo[i], 0)]
           /\ err' = IF dup THEN "OperationalError" ELSE "none"
           /\ catalog' = IF dup THEN catalog ELSE catalog \cup Range(todo)
           /\ visible' = catalog'
    /\ lastOp' = "create_all"
    /\ steps' = <<>>
    /\ arg' = 0
    /\ UNCHANGED <<session, identity_map, txn, objs, links, pending, tables, stored, snapshot>>
    /\ UNCHANGED <<pc, style, handle, db, work, log, calls, prevOp, exc, propagated,
                   cursor, rowcount, lastStmt, params, invoked, fetched, given, driverTxn>>
    /\ UNCHANGED loadRest

\* Base.metadata.drop_all(engine): DROP TABLE for every registered table that exists,
\* with its rows
DropAll ==
    /\ session = "closed"
    /\ LET todo == SelectSeq(DropOrder(metadata), LAMBDA t : t \in catalog)
           left == [t \in {"user_account", "address"} |->
                       IF t \in Range(todo) THEN {} ELSE stored[t]]
       IN  /\ emitted' = [i \in DOMAIN todo |-> Stmt("DROP TABLE", todo[i], 0)]
           /\ catalog' = catalog \ Range(todo)
           /\ visible' = catalog'
           /\ stored' = left
           /\ tables' = left
    /\ err' = "none"
    /\ lastOp' = "drop_all"
    /\ steps' = <<>>
    /\ arg' = 0
    /\ UNCHANGED <<session, identity_map, txn, objs, links, pending, snapshot>>
    /\ UNCHANGED <<pc, style, handle, db, work, log, calls, prevOp, exc, propagated,
                   cursor, rowcount, lastStmt, params, invoked, fetched, given, driverTxn>>
    /\ UNCHANGED loadRest

\* data/db.sqlite3 as a run finds it: not there yet, or with both tables and the
\* rows earlier runs left; the classes registered are those of one of the Schemas
InitSchema ==
    /\ ConnIdle
    /\ OrmIdle
    /\ metadata \in Schemas
    /\ objs = Constructed
    /\ links = {}
    /\ pending = <<>>
    /\ \/ /\ catalog = {}
          /\ stored = [user_account |-> {}, address |-> {}]
       \/ /\ catalog = {"user_account", "address"}
          /\ \E us \in StoredUsers : stored = [user_account |-> us, address |-> {}]
    /\ visible = catalog
    /\ tables = stored
    /\ emitted = <<>>
    /\ steps = <<>>
    /\ snapshot = [o \in Oids |-> ""]
    /\ arg = 0

NextSchema ==
    \/ CreateAll
    \/ DropAll
    \/ UowOpen
    \/ \E id \in 0..1 : ExecuteInsert("user_account", id, 0)
    \/ \E fk \in 1..2 : ExecuteInsert("address", 0, fk)
    \/ SessionCommit
    \/ SessionClose

SpecSchema == InitSchema /\ [][NextSchema]_vars

\* the tables named by the statements of kind sql, in statement order
TablesOf(stmts, sql) ==
    LET hit == SelectSeq(stmts, LAMBDA st : st.sql = sql)
    IN  [i \in DOMAIN hit |-> hit[i].tab]

PosIn(q, x) == CHOOSE i \in DOMAIN q : q[i] = x

\* q names every table of S exactly once and nothing else
OnceEach(q, S) ==
    /\ Range(q) = S
    /\ Len(q) = Cardinality(S)

\* q has every referenced table before the table that refers to it
ReferencedFirst(md, q) ==
    \A fk \in md.fkeys :
        (fk[1] \in Range(q) /\ fk[2] \in Range(q)) => PosIn(q, fk[2]) < PosIn(q, fk[1])

\* C23 as stated: create_all issues one CREATE TABLE per registered class, referenced
\* tables first (user_account before address); drop_all issues the DROP TABLEs in the
\* reverse order; with a foreign key cycle create_all fails with DependencyError and
\* creates nothing.
C23_CreateAllOrderedOrFails ==
    [][/\ (lastOp' = "create_all" /\ ~Cyclic(metadata))
             => LET made == TablesOf(emitted', "CREATE TABLE")
                IN  /\ err' = "none"
                    /\ OnceEach(made, Range(metadata.tables))
                    /\ ReferencedFirst(metadata, made)
       /\ (lastOp' = "create_all" /\ Cyclic(metadata))
             => (err' = "DependencyError" /\ catalog' = catalog)
       /\ lastOp' = "drop_all"
             => TablesOf(emitted', "DROP TABLE") = Reverse(CreateOrder(metadata))]_vars

\* C23 amended: create_all issues one CREATE TABLE per registered class whose table
\* does not exist yet and raises nothing, also when the foreign keys form a cycle;
\* without a cycle every referenced table is created before the table that refers to
\* it (user_account before address), and drop_all issues the DROP TABLEs of the
\* existing tables in the reverse of the creation order.
C23_CreateAllOrdered ==
    [][/\ lastOp' = "create_all"
             => LET made == TablesOf(emitted', "CREATE TABLE")
                IN  /\ err' = "none"
                    /\ Len(emitted') = Len(made)
                    /\ OnceEach(made, Range(metadata.tables) \ catalog)
                    /\ catalog' = catalog \cup Range(metadata.tables)
                    /\ ~Cyclic(metadata)
                          => /\ ReferencedFirst(metadata, made)
                             /\ catalog = {} => made = <<"user_account", "address">>
       /\ (lastOp' = "drop_all" /\ ~Cyclic(metadata))
             => LET gone == TablesOf(emitted', "DROP TABLE")
                IN  /\ Len(emitted') = Len(gone)
                    /\ OnceEach(gone, Range(metadata.tables) \cap catalog)
                    /\ catalog = Range(metadata.tables)
                          => gone = Reverse(<<"user_account", "address">>)
                    /\ catalog' = catalog \ Range(metadata.tables)]_vars

\* create_all on a database without tables, for classes whose foreign keys form a
\* cycle: both tables were created and nothing was raised
C23_CycleCreated ==
    /\ lastOp = "create_all"
    /\ Cyclic(metadata)
    /\ err = "none"
    /\ Len(emitted) = 2
    /\ catalog = {"user_account", "address"}

\* C29: create_all on a database that already has the registered tables raises no
\* error, issues no statement (no CREATE TABLE), and leaves the tables and the rows
\* stored in them as they were.
C29_CreateAllIdempotent ==
    [][(lastOp' = "create_all" /\ Range(metadata.tables) \subseteq catalog)
          => /\ err' = "none"
             /\ emitted' = <<>>
             /\ catalog' = catalog /\ visible' = visible
             /\ stored' = stored /\ tables' = tables]_vars

\* create_all ran on a database file that holds both tables and a committed user row
C29_CreateAllOverStoredRows ==
    /\ lastOp = "create_all"
    /\ emitted = <<>>
    /\ err = "none"
    /\ catalog = {"user_account", "address"}
    /\ \E r \in stored.user_account : r.name = "spongebob"

(***************************************************************************)
(* Concurrent tasks (threads or asyncio tasks), each with a Session of its *)
(* own on a Connection of its own, all on the one database file            *)
(* (4_using_session.py: Session per thread, AsyncSession per task).        *)
(***************************************************************************)

\* A task before it opens its Session: its objects constructed, nothing else.
Fresh ==
    [session |-> "closed", objs |-> Constructed, pending |-> <<>>, imap |-> {},
     txn |-> "idle", tables |-> [user_account |-> {}, address |-> {}], inflight |-> 0,
     wrote |-> FALSE]

\* the number of statements sql among the statements e
CountOf(e, sql) == Cardinality({i \in DOMAIN e : e[i].sql = sql})

\* The Session of task t as the value the Session calls work on.  Until it has
\* written, it sees the database as it is committed now (the driver begins its
\* transaction with the first INSERT or UPDATE).
SessOf(ts, t, st) ==
    [objs |-> ts[t].objs, links |-> {}, pending |-> ts[t].pending, imap |-> ts[t].imap,
     txn |-> ts[t].txn,
     tables |-> IF ts[t].wrote THEN ts[t].tables ELSE st,
     stored |-> st, emitted |-> <<>>, steps |-> <<>>]

\* What a Session call of task t leaves in the task's own state.
After(ts, t, s) ==
    [session |-> ts[t].session, objs |-> s.objs, pending |-> s.pending, imap |-> s.imap,
     txn |-> s.txn, tables |-> s.tables,
     inflight |-> ts[t].inflight + CountOf(s.emitted, "BEGIN")
                     - CountOf(s.emitted, "COMMIT") - CountOf(s.emitted, "ROLLBACK"),
     wrote |-> /\ s.txn = "active"
               /\ \/ ts[t].wrote
                  \/ CountOf(s.emitted, "INSERT") + CountOf(s.emitted, "UPDATE") > 0]

\* Variant of Put for tasks that share one Session: every task holds the result.
PutShared(ts, t, r) == [u \in Tasks |-> r]

\* the tasks after task t's call: its own state replaced, the others as they were
Put(ts, t, r) == [ts EXCEPT ![t] = r]

\* task u holds the write lock of the database file: its transaction has written
Writing(ts, u) == ts[u].session = "open" /\ ts[u].wrote

\* task t has something a flush would write
HasWrites(ts, t) ==
    \/ ts[t].pending # <<>>
    \/ \E o \in Oids : ts[t].objs[o].state = "persistent" /\ ts[t].objs[o].dirty

\* SQLite lets one transaction write at a time: a task that has to write waits while
\* another task's transaction has written and not ended
MayWrite(ts, t) ==
    HasWrites(ts, t) => \A u \in Tasks \ {t} : ts[u] # [session |-> "closed"] => ~Writing(ts, u)

\* the variables no task step touches
TaskRest == <<connVars, users, addresses, session, heap, identity_map, firstLoad, result,
              related, lastQuery, contents, statements, delivered, lazy, relVars, metadata,
              objs, links, pending, tables, emitted, steps, snapshot, arg>>

\* the thread / task starts (its objects are constructed inside it)
TaskStart(t) ==
    /\ tasks[t] = [session |-> "closed"]
    /\ tasks' = Put(tasks, t, Fresh)
    /\ actor' = t
    /\ UNCHANGED <<stored, TaskRest>>

\* with Session(engine) as session: in task t
TaskOpen(t) ==
    /\ tasks[t] # [session |-> "closed"]
    /\ tasks[t].session = "closed"
    /\ \A o \in Oids : tasks[t].objs[o].state = "transient" /\ tasks[t].objs[o].pk = 0
    /\ tasks' = Put(tasks, t, [tasks[t] EXCEPT !.session = "open"])
    /\ actor' = t
    /\ UNCHANGED <<stored, TaskRest>>

\* session.add(e) in task t
TaskAdd(t, e) ==
    /\ tasks[t] # [session |-> "closed"]
    /\ tasks[t].session = "open"
    /\ tasks[t].objs[e].state = "transient"
    /\ tasks' = Put(tasks, t, [tasks[t] EXCEPT !.pending = Append(@, e),
                                               !.objs[e].state = "pending"])
    /\ actor' = t
    /\ UNCHANGED <<stored, TaskRest>>

\* session.flush() in task t
TaskFlush(t) ==
    /\ tasks[t] # [session |-> "closed"]
    /\ tasks[t].session = "open"
    /\ HasWrites(tasks, t)
    /\ MayWrite(tasks, t)
    /\ LET s == FlushStep(SessOf(tasks, t, stored))
       IN  /\ tasks' = Put(tasks, t, After(tasks, t, s))
           /\ stored' = s.stored
    /\ actor' = t
    /\ UNCHANGED TaskRest

\* session.commit() in task t
TaskCommit(t) ==
    /\ tasks[t] # [session |-> "closed"]
    /\ tasks[t].session = "open"
    /\ MayWrite(tasks, t)
    /\ LET s == CommitSteps(SessOf(tasks, t, stored))
       IN  /\ tasks' = Put(tasks, t, After(tasks, t, s))
           /\ stored' = s.stored
    /\ actor' = t
    /\ UNCHANGED TaskRest

\* print(u1) in task t on an object its commit expired: the SELECT by primary key
\* runs in the Session's transaction, begun if none is active
TaskRead(t, o) ==
    /\ tasks[t] # [session |-> "closed"]
    /\ tasks[t].session = "open"
    /\ tasks[t].objs[o].state = "persistent" /\ tasks[t].objs[o].expired
    /\ tasks[t].pending = <<>>
    /\ LET s == Reload(SessOf(tasks, t, stored), o)
       IN  /\ tasks' = Put(tasks, t, After(tasks, t, s))
           /\ stored' = s.stored
    /\ actor' = t
    /\ UNCHANGED TaskRest

\* session.rollback() in task t
TaskRollback(t) ==
    /\ tasks[t] # [session |-> "closed"]
    /\ tasks[t].session = "open"
    /\ LET s == RollbackSteps(SessOf(tasks, t, stored))
       IN  /\ tasks' = Put(tasks, t, After(tasks, t, s))
           /\ stored' = s.stored
    /\ actor' = t
    /\ UNCHANGED TaskRest

\* leaving the with-block in task t: what is open is rolled back, the Session emptied
TaskClose(t) ==
    /\ tasks[t] # [session |-> "closed"]
    /\ tasks[t].session = "open"
    /\ LET s == RollbackStep(SessOf(tasks, t, stored))
           a == After(tasks, t, s)
       IN  /\ tasks' = Put(tasks, t,
                  [a EXCEPT !.session = "closed", !.imap = {},
                            !.objs = [o \in Oids |->
                                         IF a.objs[o].state = "persistent"
                                         THEN [a.objs[o] EXCEPT !.state = "detached"]
                                         ELSE a.objs[o]]])
           /\ stored' = s.stored
    /\ actor' = t
    /\ UNCHANGED TaskRest

InitTasks == ConnInit /\ OrmIdle /\ UowIdle

NextTasks ==
    \/ \E t \in Tasks : TaskStart(t)
    \/ \E t \in Tasks : TaskOpen(t)
    \/ \E t \in Tasks : \E e \in 1..2 : TaskAdd(t, e)
    \/ \E t \in Tasks : TaskFlush(t)
    \/ \E t \in Tasks : TaskCommit(t)
    \/ \E t \in Tasks : \E o \in 1..2 : TaskRead(t, o)
    \/ \E t \in Tasks : TaskRollback(t)
    \/ \E t \in Tasks : TaskClose(t)

SpecTasks == InitTasks /\ [][NextTasks]_vars

Started(t) == tasks[t] # [session |-> "closed"]

\* C22: with a Session and a Connection per task, under every interleaving each
\* Connection has at most one transaction in flight (one exactly while the Session's
\* transaction is active), and a step of one task leaves every other task's
\* transaction state, pending list, identity map and objects as they were.
C22_TasksDoNotInterfere ==
    /\ [](\A t \in Tasks : Started(t) =>
             /\ tasks[t].inflight \in {0, 1}
             /\ tasks[t].inflight = 1 <=> tasks[t].txn = "active")
    /\ [][\A u \in Tasks \ {actor'} : tasks'[u] = tasks[u]]_vars

\* both tasks have a transaction in flight at once: t1 reads back the user it
\* committed while t2 has flushed a user of its own, which got the next primary key
C22_TwoTransactionsInFlight ==
    /\ actor = "t2"
    /\ Started("t1") /\ Started("t2")
    /\ tasks["t1"].txn = "active" /\ tasks["t1"].inflight = 1 /\ ~tasks["t1"].wrote
    /\ tasks["t2"].txn = "active" /\ tasks["t2"].inflight = 1 /\ tasks["t2"].wrote
    /\ tasks["t1"].objs[1].pk = 1 /\ tasks["t2"].objs[1].pk = 2
    /\ tasks["t1"].imap # tasks["t2"].imap
====
